---- MODULE Spec2Model ----
(***************************************************************************)
(* The batched keypoint-inference pipeline of lab_mocap: construction of   *)
(* an RTMPose instance (BaseTool.__init__, RTMPose.__init__), the backend  *)
(* run (BaseTool.inference) and the per-frame call (RTMPose.__call__ with  *)
(* preprocess and postprocess).                                            *)
(*                                                                         *)
(* A float of the program is a binary floating-point number of            *)
(* MantissaBits significant bits, written as the rational <<n, d>> it is   *)
(* (d > 0, lowest terms); every float operation rounds its exact result to *)
(* the nearest such number, ties to even, as IEEE 754 does at 53 bits.     *)
(* Images are abstract: a frame is a name, a crop is the record of what it *)
(* was cut from.                                                           *)
(***************************************************************************)
EXTENDS Integers, Sequences, FiniteSets

VARIABLES
    obj,        \* the RTMPose instance (or the failure of its constructor)
    timing,     \* obj._last_inference_timing: <<>> until the first run, then <<dict>>
    ret,        \* the last operation: its arguments, what it ran, its result
    thread,     \* the GUI's video thread and the GUI thread that stops it
    squat,      \* the squat script's counters and the frame it is working on
    window      \* the treadmill window: recording widget, recorded data, analyses

vars == <<obj, timing, ret, thread, squat, window>>

----------------------------------------------------------------------------
\* Bounds of the exploration.

MaxBoxes == 2        \* longest box list submitted to one call
MaxTick == 1         \* longest duration one clock interval can measure
MantissaBits == 12   \* significant bits of a float (the program's have 53)
MaxSide == 12        \* largest width and height of the boxes of SpecScale
MaxFrames == 2       \* frames counted per video thread (the count saturates)
MaxStarts == 2       \* video threads the main window starts one after another
MaxSquatFrames == 4  \* video frames the squat script reads
MaxPersons == 3      \* persons with keypoints in one frame of the squat script
MaxSamples == 5      \* longest recorded series handed to segment_strides
MaxUpdates == 3      \* frame_ready emissions the treadmill window displays
MaxSignals == 4      \* recording_started / recording_stopped emissions

----------------------------------------------------------------------------
\* Program constants.

NumKeypointsDefault == 17    \* num_keypoints of the no-box path
PaddingNum == 5              \* padding=1.25 is PaddingNum / PaddingDen
PaddingDen == 4
SplitRatio == 2              \* simcc_split_ratio
Channels == 3                \* colour channels of a frame and of a crop

----------------------------------------------------------------------------
\* Rationals <<n, d>>, in lowest terms with d > 0.

RECURSIVE GCD(_, _)
GCD(a, b) == IF b = 0 THEN a ELSE GCD(b, a % b)

Abs(a) == IF a < 0 THEN -a ELSE a

Reduce(n, d, g) == IF d < 0 THEN <<(-n) \div g, (-d) \div g>>
                             ELSE <<n \div g, d \div g>>
Rat(n, d) == Reduce(n, d, GCD(Abs(n), Abs(d)))

RInt(n) == <<n, 1>>
RAdd(p, q) == Rat(p[1] * q[2] + q[1] * p[2], p[2] * q[2])
RSub(p, q) == Rat(p[1] * q[2] - q[1] * p[2], p[2] * q[2])
RMul(p, q) == Rat(p[1] * q[1], p[2] * q[2])
RDiv(p, q) == Rat(p[1] * q[2], p[2] * q[1])
RGt(p, q) == p[1] * q[2] > q[1] * p[2]
RGe(p, q) == p[1] * q[2] >= q[1] * p[2]
RAbs(p) == <<Abs(p[1]), p[2]>>

RECURSIVE Pow2(_)
Pow2(k) == IF k = 0 THEN 1 ELSE 2 * Pow2(k - 1)

\* Float arithmetic: the exact result, rounded to MantissaBits bits.

MantissaLow == Pow2(MantissaBits - 1)
MantissaHigh == Pow2(MantissaBits)

\* n / d > 0 scaled by 2^-e lies in [2^(bits-1), 2^bits): round it there, to
\* the nearest integer, ties to even, and scale back.
NearestEven(m, r, d) ==
    IF (2 * r > d) \/ (2 * r = d /\ m % 2 = 1) THEN m + 1 ELSE m
Scaled(m, e) == IF e >= 0 THEN Rat(m * Pow2(e), 1) ELSE Rat(m, Pow2(-e))

RECURSIVE RoundPositive(_, _, _)
RoundPositive(n, d, e) ==
    IF n \div d >= MantissaHigh THEN RoundPositive(n, 2 * d, e + 1)
    ELSE IF n \div d < MantissaLow
    THEN IF d % 2 = 0 THEN RoundPositive(n, d \div 2, e - 1)
                      ELSE RoundPositive(2 * n, d, e - 1)
    ELSE Scaled(NearestEven(n \div d, n % d, d), e)

RNeg(p) == <<-p[1], p[2]>>
Fl(q) ==
    IF q[1] = 0 THEN <<0, 1>>
    ELSE IF q[1] > 0 THEN RoundPositive(q[1], q[2], 0)
    ELSE RNeg(RoundPositive(-q[1], q[2], 0))

FAdd(p, q) == Fl(RAdd(p, q))
FSub(p, q) == Fl(RSub(p, q))
FMul(p, q) == Fl(RMul(p, q))
FDiv(p, q) == Fl(RDiv(p, q))

----------------------------------------------------------------------------
\* Construction: BaseTool.__init__ followed by RTMPose.__init__.

Backends == {"opencv", "onnxruntime", "openvino", "tensorrt"}
Devices == {"cpu", "cuda", "rocm", "mps", "npu"}

\* The checkpoints the scripts load, and the keypoints each one predicts.
Models == {"rtmpose-m-256-192.onnx", "rtmpose-m-256-192_26k.onnx"}
ModelKeypoints(m) == IF m = "rtmpose-m-256-192_26k.onnx" THEN 26 ELSE 17

\* model_input_size as (width, height): the scripts' value and the default.
InputSizes == {<<192, 256>>, <<288, 384>>}

\* RTMLIB_SETTINGS[backend][device]; "KeyError" where the table has no entry.
\* The 'mps' entry is decided when the module is imported (check_mps_support).
RTMLIB_SETTINGS(backend, device, mps_support) ==
    IF backend = "opencv" THEN
        CASE device = "cpu" -> "DNN_TARGET_CPU"
          [] device = "cuda" -> "DNN_TARGET_CUDA"
          [] OTHER -> "KeyError"
    ELSE IF backend = "onnxruntime" THEN
        CASE device = "cpu" -> "CPUExecutionProvider"
          [] device = "cuda" -> "CUDAExecutionProvider"
          [] device = "rocm" -> "ROCMExecutionProvider"
          [] device = "mps" -> IF mps_support THEN "CoreMLExecutionProvider"
                                              ELSE "CPUExecutionProvider"
          [] OTHER -> "KeyError"
    ELSE "KeyError"

\* download_checkpoint(onnx_model): the fetch from the checkpoint registry.
\* A failed fetch raises; a good one returns the path of the fetched file.
download_checkpoint(onnx_model, fetch_ok) ==
    IF fetch_ok THEN [raised |-> FALSE, path |-> onnx_model]
                ELSE [raised |-> TRUE, path |-> ""]

\* `if not os.path.exists(onnx_model)`: whether the constructor fetches.
NeedsFetchAlways(exists) == TRUE
NeedsFetch(exists) == ~exists

NoObject ==
    [status |-> "none", error |-> "", onnx_model |-> "", model_input_size |-> <<0, 0>>,
     mean |-> "unset", std |-> "unset", backend |-> "", device |-> "",
     provider |-> "", session |-> FALSE, to_openpose |-> FALSE]

Failed(error) == [NoObject EXCEPT !.status = "failed", !.error = error]

\* The backend branch of BaseTool.__init__, after the path is settled:
\* [error, provider, events], error "" when a session was loaded.
LoadBackend(backend, device, mps_support, load_ok) ==
    LET entry == RTMLIB_SETTINGS(backend, device, mps_support)
    IN  IF backend = "opencv" THEN
            \* any exception of the try block becomes a RuntimeError
            IF entry = "KeyError"
            THEN [error |-> "RuntimeError", provider |-> "", events |-> <<>>]
            ELSE IF ~load_ok
            THEN [error |-> "RuntimeError", provider |-> "",
                  events |-> <<"readNetFromONNX">>]
            ELSE [error |-> "", provider |-> entry, events |-> <<"readNetFromONNX">>]
        ELSE IF backend = "onnxruntime" THEN
            IF entry = "KeyError"
            THEN [error |-> "KeyError", provider |-> "", events |-> <<>>]
            ELSE IF ~load_ok
            THEN [error |-> "LoadError", provider |-> "",
                  events |-> <<"InferenceSession">>]
            ELSE [error |-> "", provider |-> entry, events |-> <<"InferenceSession">>]
        ELSE IF backend = "openvino" THEN
            \* device != 'cpu' only prints; compile_model(device_name='CPU')
            IF ~load_ok
            THEN [error |-> "LoadError", provider |-> "", events |-> <<"read_model">>]
            ELSE [error |-> "", provider |-> "CPU",
                  events |-> <<"read_model", "compile_model">>]
        ELSE [error |-> "NotImplementedError", provider |-> "", events |-> <<>>]

\* np.array(mean, dtype=np.float32) of RTMPose.__init__: an array for a tuple,
\* and for None the array holding nan; never None.
ArrayOf(value) == IF value = "None" THEN "nan" ELSE "array"

\* The whole constructor: [obj, events].
BaseToolInit(a, env) ==
    LET fetch == NeedsFetch(env.exists)
        got == download_checkpoint(a.onnx_model, env.fetch_ok)
        pre == IF fetch THEN <<"download_checkpoint">> ELSE <<>>
    IN  IF fetch /\ got.raised
        THEN [obj |-> Failed("DownloadError"), events |-> pre]
        ELSE LET b == LoadBackend(a.backend, a.device, env.mps_support, env.load_ok)
             IN  IF b.error # ""
                 THEN [obj |-> Failed(b.error), events |-> pre \o b.events]
                 ELSE [obj |-> [status |-> "ready", error |-> "",
                                onnx_model |-> a.onnx_model,
                                model_input_size |-> a.model_input_size,
                                mean |-> ArrayOf(a.mean), std |-> ArrayOf(a.std),
                                backend |-> a.backend, device |-> a.device,
                                provider |-> b.provider, session |-> TRUE,
                                to_openpose |-> a.to_openpose],
                       events |-> pre \o b.events]

DefaultModel == "rtmpose-m-256-192.onnx"
DefaultSize == <<192, 256>>

\* The constructor calls explored: every backend with every device, and the
\* pipeline's own parameters varied under the backend the scripts use.
CtorArgs ==
    {[onnx_model |-> DefaultModel, model_input_size |-> DefaultSize,
      mean |-> "tuple", std |-> "tuple",
      to_openpose |-> FALSE, backend |-> b, device |-> d] :
        b \in Backends, d \in Devices}
    \cup
    {[onnx_model |-> m, model_input_size |-> s, mean |-> "tuple", std |-> "tuple",
      to_openpose |-> t, backend |-> "onnxruntime", device |-> "cuda"] :
        m \in Models, s \in InputSizes, t \in BOOLEAN}
    \cup
    {[onnx_model |-> DefaultModel, model_input_size |-> DefaultSize,
      mean |-> "None", std |-> "None",
      to_openpose |-> FALSE, backend |-> "onnxruntime", device |-> "cuda"]}

Envs == [exists : BOOLEAN, fetch_ok : BOOLEAN, load_ok : BOOLEAN,
         mps_support : BOOLEAN]

Construct ==
    /\ obj.status = "none"
    /\ \E a \in CtorArgs, env \in Envs :
         \E r \in {BaseToolInit(a, env)} :
             /\ obj' = r.obj
             /\ ret' = [op |-> "init", backend |-> a.backend, device |-> a.device,
                        mean |-> a.mean,
                        exists |-> env.exists, fetch_ok |-> env.fetch_ok,
                        load_ok |-> env.load_ok, mps_support |-> env.mps_support,
                        events |-> r.events, raised |-> r.obj.error]
    /\ UNCHANGED <<timing, thread, squat, window>>

----------------------------------------------------------------------------
\* The inputs of a call: a frame, one of two of the same size with different
\* pixels, and a list of boxes (x1, y1, x2, y2).

Frames == {"frame", "next_frame"}

BoxTall == <<100, 100, 200, 300>>     \* narrower than the 3:4 input
BoxWide == <<40, 60, 240, 140>>       \* wider than the 3:4 input
Boxes == {BoxTall, BoxWide}

\* A box with x1 > x2, alone and beside a proper box.
BoxFlipped == <<200, 100, 100, 300>>
DegenerateLists == {<<BoxFlipped>>, <<BoxTall, BoxFlipped>>, <<BoxFlipped, BoxTall>>}

BoxLists == UNION {[1..n -> Boxes] : n \in 0..MaxBoxes} \cup DegenerateLists

\* The calls explored: the first frame with every list of boxes, the second
\* frame with each box alone and with the two boxes in both orders.
NextFrameLists == {<<b>> : b \in Boxes} \cup {<<BoxWide, BoxTall>>, <<BoxTall, BoxWide>>}

CallInputs ==
    {[image |-> "frame", bboxes |-> b] : b \in BoxLists}
    \cup {[image |-> "next_frame", bboxes |-> b] : b \in NextFrameLists}

\* What the clock can measure over one interval: nothing, or MaxTick.
Durations == {0, MaxTick}

\* The intervals of one call: preprocess, the two of the backend run,
\* postprocess, and `over`, everything else between the first and the last
\* reading of the clock.  Explored: none, all of them, and each of prep,
\* model and over alone.
Intervals == {"pre", "prep", "model", "post", "over"}
TickOf(S) == [f \in Intervals |-> IF f \in S THEN MaxTick ELSE 0]
Ticks == {TickOf(S) : S \in {{}, Intervals, {"prep"}, {"model"}, {"over"}}}

\* A list or an array with its elements computed: the sequence f, as a tuple.
Array(f) == f \o <<>>

----------------------------------------------------------------------------
\* Geometric preprocessing (pre_processings.py) and RTMPose.preprocess.

\* bbox_xyxy2cs(bbox, padding): midpoint, and (width, height) * padding.
bbox_xyxy2cs(bbox, padding) ==
    [center |-> <<FMul(FAdd(RInt(bbox[1]), RInt(bbox[3])), Rat(1, 2)),
                  FMul(FAdd(RInt(bbox[2]), RInt(bbox[4])), Rat(1, 2))>>,
     scale |-> <<FMul(FSub(RInt(bbox[3]), RInt(bbox[1])), padding),
                 FMul(FSub(RInt(bbox[4]), RInt(bbox[2])), padding)>>]

\* The aspect-ratio step of the affine crop.
fix_aspect_ratio(scale, ratio) ==
    IF RGt(FDiv(scale[1], scale[2]), ratio)
    THEN <<scale[1], FDiv(scale[1], ratio)>>
    ELSE <<FMul(scale[2], ratio), scale[2]>>

\* top_down_affine(input_size, scale, center, img): the warped crop, an
\* (h, w, 3) buffer, and the adjusted scale it was cut with.
top_down_affine(input_size, scale, center, img) ==
    LET adjusted == fix_aspect_ratio(scale, FDiv(RInt(input_size[1]),
                                                  RInt(input_size[2])))
    IN  [img |-> [frame |-> img, center |-> center, scale |-> adjusted,
                  shape |-> <<input_size[2], input_size[1], Channels>>,
                  normalized |-> FALSE],
         scale |-> adjusted]

\* cv2.subtract(crop, mean) then cv2.divide(crop, std).
Normalize(crop) == [crop EXCEPT !.normalized = TRUE]

\* scales.append(updated_scale): which of the two scales is kept for decoding.
StoredScaleRaw(scale, updated_scale) == scale
StoredScale(scale, updated_scale) == updated_scale

\* The body of `for bbox in bboxes` once the crop is cut: the (normalized)
\* crop for the batch, the center and the scale for the two lists.
LoopAppend(o, cs, td) ==
    [crop |-> IF o.mean # "None" THEN Normalize(td.img) ELSE td.img,
     center |-> cs.center,
     scale |-> StoredScale(cs.scale, td.scale)]

LoopCrop(o, img, cs) ==
    LoopAppend(o, cs, top_down_affine(o.model_input_size, cs.scale, cs.center, img))

LoopBodyUnpadded(o, img, bbox) ==
    LoopCrop(o, img, bbox_xyxy2cs(bbox, Rat(1, 1)))
LoopBody(o, img, bbox) ==
    LoopCrop(o, img, bbox_xyxy2cs(bbox, Rat(PaddingNum, PaddingDen)))

\* np.stack(batch_img), or the explicit empty batch.
Stack(o, batch_img) ==
    IF batch_img # <<>>
    THEN [shape |-> <<Len(batch_img)>> \o batch_img[1].shape, data |-> batch_img]
    ELSE [shape |-> <<0, o.model_input_size[1], o.model_input_size[2], Channels>>,
          data |-> <<>>]

\* The three lists after the loop, and the stacked batch.
PreprocessLists(o, items) ==
    [batch_img_np |-> Stack(o, Array([i \in 1..Len(items) |-> items[i].crop])),
     centers |-> Array([i \in 1..Len(items) |-> items[i].center]),
     scales |-> Array([i \in 1..Len(items) |-> items[i].scale])]

\* RTMPose.preprocess: the NHWC batch with the centers and scales, entry i of
\* each from the i-th box of the list.
Preprocess(o, img, bboxes) ==
    PreprocessLists(o, Array([i \in 1..Len(bboxes) |-> LoopBody(o, img, bboxes[i])]))

\* ndarray.transpose(axes), on the shape.
Transpose(shape, axes) == Array([i \in 1..Len(axes) |-> shape[axes[i] + 1]])

----------------------------------------------------------------------------
\* The backend run: the loaded network, and BaseTool.inference.

\* The loaded network on one crop: for each of its K keypoints, where each
\* SimCC vector peaks and how high.  A fixed function of the crop.
FramePixels(frame) == IF frame = "frame" THEN 0 ELSE 7

Seed(crop) ==
    crop.center[1][1] + 3 * crop.center[2][1] + crop.scale[1][1]
        + FramePixels(crop.frame)

NetVector(K, seed, step, bins) ==
    Array([k \in 1..K |-> [peak |-> (seed + step * k) % bins,
                           max |-> Fl(Rat(1 + ((seed + (step % 3) * k) % 9), 10))]])

NetRowX(o, crop, width) ==
    NetVector(ModelKeypoints(o.onnx_model), Seed(crop), 13, SplitRatio * width)

NetRowY(o, crop, height) ==
    NetVector(ModelKeypoints(o.onnx_model), Seed(crop), 29, SplitRatio * height)

\* session.run / session.forward / compiled_model on an NCHW tensor: the two
\* SimCC outputs, (N, K, 2W) and (N, K, 2H), row i from input row i.
SessionRun(o, input_tensor) ==
    [simcc_x |->
        [shape |-> <<input_tensor.shape[1], ModelKeypoints(o.onnx_model),
                     SplitRatio * input_tensor.shape[4]>>,
         data |-> Array([i \in 1..input_tensor.shape[1] |->
                      NetRowX(o, input_tensor.data[i], input_tensor.shape[4])])],
     simcc_y |->
        [shape |-> <<input_tensor.shape[1], ModelKeypoints(o.onnx_model),
                     SplitRatio * input_tensor.shape[3]>>,
         data |-> Array([i \in 1..input_tensor.shape[1] |->
                      NetRowY(o, input_tensor.data[i], input_tensor.shape[3])])]]

\* The ranks inference() takes: 3 (one HWC image) and 4 (an NCHW batch).
RankAccepted(ndim) == ndim \in {3, 4}

\* The tensor handed to the backend for an accepted input.
InputTensorNoTranspose(img) ==
    IF Len(img.shape) = 3 THEN [shape |-> <<1>> \o img.shape, data |-> img.data]
    ELSE img
InputTensor(img) ==
    IF Len(img.shape) = 3
    THEN [shape |-> <<1>> \o Transpose(img.shape, <<2, 0, 1>>), data |-> img.data]
    ELSE img

\* self._last_inference_timing, as one run leaves it.
LastInferenceTimingModelOnly(prep_time, model_time) ==
    [prep |-> prep_time, model |-> model_time, total |-> model_time]
LastInferenceTiming(prep_time, model_time) ==
    [prep |-> prep_time, model |-> model_time, total |-> prep_time + model_time]

\* The accepted branch: the backend is executed once on the tensor.
InferenceRun(o, input_tensor) ==
    [raised |-> "", input_tensor |-> input_tensor,
     outputs |-> SessionRun(o, input_tensor), runs |-> 1]

\* The accepted branch when the backend raises: nothing in inference() catches
\* the exception, so the backend was executed once and nothing is returned.
InferenceRunRaisedRetried(o, input_tensor) ==
    [raised |-> "BackendError", input_tensor |-> input_tensor,
     outputs |-> "none", runs |-> 2]
InferenceRunRaised(o, input_tensor) ==
    [raised |-> "BackendError", input_tensor |-> input_tensor,
     outputs |-> "none", runs |-> 1]

\* BaseTool.inference(img): what it raises or returns, and how many times it
\* executed the backend.  (Its timing attribute is LastInferenceTiming.)
Inference(o, img) ==
    IF ~RankAccepted(Len(img.shape))
    THEN [raised |-> "ValueError", input_tensor |-> [shape |-> <<>>, data |-> <<>>],
          outputs |-> "none", runs |-> 0]
    ELSE InferenceRun(o, InputTensor(img))

----------------------------------------------------------------------------
\* Decoding (post_processings.py) and RTMPose.postprocess.

\* get_simcc_maximum on one item: per keypoint the two argmax positions, and
\* the product of the two maxima as the score.
get_simcc_maximum(simcc_x, simcc_y) ==
    [locs |-> Array([k \in 1..Len(simcc_x) |-> <<simcc_x[k].peak, simcc_y[k].peak>>]),
     scores |-> Array([k \in 1..Len(simcc_x) |->
                          FMul(simcc_x[k].max, simcc_y[k].max)])]

\* keypoints / simcc_split_ratio / model_input_size * scale + center - scale / 2
RescaleNoOffset(loc, size, scale, center) ==
    FAdd(FMul(FDiv(FDiv(RInt(loc), RInt(SplitRatio)), RInt(size)), scale), center)
Rescale(loc, size, scale, center) ==
    FSub(FAdd(FMul(FDiv(FDiv(RInt(loc), RInt(SplitRatio)), RInt(size)), scale),
              center),
         FDiv(scale, RInt(2)))

\* centers_np[i], scales_np[i]: the entry that decodes item i.
DecodeIndexFirst(i) == 1
DecodeIndex(i) == i

\* The body of `for i in range(num_bboxes)` on the decoded maxima of item i.
DecodeItem(o, got, center, scale) ==
    [keypoints |->
        Array([k \in 1..Len(got.locs) |->
            <<Rescale(got.locs[k][1], o.model_input_size[1], scale[1], center[1]),
              Rescale(got.locs[k][2], o.model_input_size[2], scale[2], center[2])>>]),
     scores |-> got.scores]

\* np.stack of the per-item results.
StackResults(items) ==
    [keypoints |-> [shape |-> <<Len(items), Len(items[1].keypoints), 2>>,
                    data |-> Array([i \in 1..Len(items) |-> items[i].keypoints])],
     scores |-> [shape |-> <<Len(items), Len(items[1].scores)>>,
                 data |-> Array([i \in 1..Len(items) |-> items[i].scores])]]

\* RTMPose.postprocess: keypoints (N, K, 2) and scores (N, K).
Postprocess(o, outputs, centers, scales) ==
    IF outputs.simcc_x.shape[1] = 0
    THEN [keypoints |-> [shape |-> <<0, outputs.simcc_x.shape[2], 2>>,
                         data |-> <<>>],
          scores |-> [shape |-> <<0, outputs.simcc_x.shape[2]>>, data |-> <<>>]]
    ELSE StackResults(
            Array([i \in 1..outputs.simcc_x.shape[1] |->
                DecodeItem(o,
                           get_simcc_maximum(outputs.simcc_x.data[i],
                                             outputs.simcc_y.data[i]),
                           centers[DecodeIndex(i)], scales[DecodeIndex(i)])]))

\* The keypoint-ordering remap: a relabelling of the K keypoints of every
\* item, keeping the shapes.
OpenposeIndex(k, K) == (k % K) + 1

Relabel(row) == Array([k \in 1..Len(row) |-> row[OpenposeIndex(k, Len(row))]])

convert_coco_to_openpose(keypoints, scores) ==
    [keypoints |->
        [shape |-> keypoints.shape,
         data |-> Array([i \in 1..Len(keypoints.data) |-> Relabel(keypoints.data[i])])],
     scores |->
        [shape |-> scores.shape,
         data |-> Array([i \in 1..Len(scores.data) |-> Relabel(scores.data[i])])]]

----------------------------------------------------------------------------
\* RTMPose.__call__(image, bboxes).

\* `if not bboxes`: the no-box path.
EmptyBoxesNever(bboxes) == FALSE
EmptyBoxes(bboxes) == bboxes = <<>>

\* The stages of the general path, in the order of the code: preprocess,
\* transpose and backend run, postprocess, optional remap.
PipelineRemapAlways(o, pre, inf, final) ==
    [keypoints |-> final.keypoints, scores |-> final.scores,
     centers |-> pre.centers, scales |-> pre.scales,
     batch_img_np |-> pre.batch_img_np.shape,
     crops |-> pre.batch_img_np.data,
     batch_input |-> inf.input_tensor.shape,
     stages |-> <<"preprocess", "inference", "postprocess",
                  "convert_coco_to_openpose">>,
     runs |-> inf.runs]
PipelineRemap(o, pre, inf, final) ==
    [keypoints |-> final.keypoints, scores |-> final.scores,
     centers |-> pre.centers, scales |-> pre.scales,
     batch_img_np |-> pre.batch_img_np.shape,
     crops |-> pre.batch_img_np.data,
     batch_input |-> inf.input_tensor.shape,
     stages |-> <<"preprocess", "inference", "postprocess">>
                \o (IF o.to_openpose THEN <<"convert_coco_to_openpose">> ELSE <<>>),
     runs |-> inf.runs]

PipelinePostprocess(o, pre, inf, post) ==
    PipelineRemap(o, pre, inf,
                  IF o.to_openpose
                  THEN convert_coco_to_openpose(post.keypoints, post.scores)
                  ELSE post)

PipelineInference(o, pre, inf) ==
    PipelinePostprocess(o, pre, inf,
                        Postprocess(o, inf.outputs, pre.centers, pre.scales))

PipelinePreprocess(o, pre) ==
    PipelineInference(o, pre,
        Inference(o, [shape |-> Transpose(pre.batch_img_np.shape, <<0, 3, 1, 2>>),
                      data |-> pre.batch_img_np.data]))

Pipeline(o, img, bboxes) == PipelinePreprocess(o, Preprocess(o, img, bboxes))

\* The return of the general path: the pipeline's arrays and the timing
\* record, prep and model read back from self._last_inference_timing.
CallReturnPartial(o, bboxes, t, p) ==
    [keypoints |-> p.keypoints, scores |-> p.scores,
     timing_info |->
        [total |-> t["pre"] + t["over"],
         preprocess |-> t["pre"],
         prep |-> LastInferenceTiming(t["prep"], t["model"]).prep,
         model |-> LastInferenceTiming(t["prep"], t["model"]).model,
         postprocess |-> t["post"],
         num_bboxes |-> Len(bboxes)],
     stages |-> p.stages, centers |-> p.centers, scales |-> p.scales,
     crops |-> p.crops, batch_input |-> p.batch_input, runs |-> p.runs]
CallReturn(o, bboxes, t, p) ==
    [keypoints |-> p.keypoints, scores |-> p.scores,
     timing_info |->
        [total |-> t["pre"] + t["prep"] + t["model"] + t["post"] + t["over"],
         preprocess |-> t["pre"],
         prep |-> LastInferenceTiming(t["prep"], t["model"]).prep,
         model |-> LastInferenceTiming(t["prep"], t["model"]).model,
         postprocess |-> t["post"],
         num_bboxes |-> Len(bboxes)],
     stages |-> p.stages, centers |-> p.centers, scales |-> p.scales,
     crops |-> p.crops, batch_input |-> p.batch_input, runs |-> p.runs]

\* The return of the no-box path.
EmptyReturnStaged(t) ==
    [keypoints |-> [shape |-> <<0, NumKeypointsDefault, 2>>, data |-> <<>>],
     scores |-> [shape |-> <<0, NumKeypointsDefault>>, data |-> <<>>],
     timing_info |-> [total |-> t["over"], preprocess |-> t["pre"], prep |-> 0,
                      model |-> 0, postprocess |-> 0, num_bboxes |-> 0],
     stages |-> <<>>, centers |-> <<>>, scales |-> <<>>,
     crops |-> <<>>, batch_input |-> <<>>, runs |-> 0]
EmptyReturn(t) ==
    [keypoints |-> [shape |-> <<0, NumKeypointsDefault, 2>>, data |-> <<>>],
     scores |-> [shape |-> <<0, NumKeypointsDefault>>, data |-> <<>>],
     timing_info |-> [total |-> t["over"], preprocess |-> 0, prep |-> 0,
                      model |-> 0, postprocess |-> 0, num_bboxes |-> 0],
     stages |-> <<>>, centers |-> <<>>, scales |-> <<>>,
     crops |-> <<>>, batch_input |-> <<>>, runs |-> 0]

\* RTMPose.__call__ given what its general path computes (p is not looked at
\* on the no-box path).
CallWith(o, bboxes, t, p) ==
    IF EmptyBoxes(bboxes) THEN EmptyReturn(t) ELSE CallReturn(o, bboxes, t, p)

\* RTMPose.__call__(image, bboxes), for the clock intervals t.
Call(o, img, bboxes, t) == CallWith(o, bboxes, t, Pipeline(o, img, bboxes))

\* Every instance a constructor call can return.
ReadyObjects ==
    {r.obj : r \in {x \in {BaseToolInit(a, env) : a \in CtorArgs, env \in Envs} :
                       x.obj.status = "ready"}}

\* The attributes of an instance that __call__ reads.
Config(o) ==
    [onnx_model |-> o.onnx_model, model_input_size |-> o.model_input_size,
     to_openpose |-> o.to_openpose, mean |-> o.mean, std |-> o.std]

Configs == {Config(o) : o \in ReadyObjects}

Instance(config) == CHOOSE o \in ReadyObjects : Config(o) = config

\* Pipeline, tabulated once over the configurations and the calls.
PipelineTable ==
    {[config |-> k, call |-> c, p |-> Pipeline(Instance(k), c.image, c.bboxes)] :
        k \in Configs, c \in CallInputs}

PipelineOf(o, img, bboxes) ==
    (CHOOSE e \in PipelineTable :
        e.config = Config(o) /\ e.call = [image |-> img, bboxes |-> bboxes]).p

\* The instance after __call__: the call assigns none of its attributes (the
\* timing snapshot, assigned by inference(), is the variable timing).
ObjAfterCallRemapOff(o) == [o EXCEPT !.to_openpose = FALSE]
ObjAfterCall(o) == o

ProcessCall ==
    /\ obj.status = "ready"
    /\ \E c \in CallInputs :
         \E img \in {c.image}, bboxes \in {c.bboxes} :
         \E p \in {PipelineOf(obj, img, bboxes)} :
           \E t \in Ticks :
             \E r \in {CallWith(obj, bboxes, t, p)} :
               /\ ret' = [op |-> "call", image |-> img, bboxes |-> bboxes,
                          keypoints |-> r.keypoints, scores |-> r.scores,
                          timing_info |-> r.timing_info, stages |-> r.stages,
                          centers |-> r.centers, scales |-> r.scales,
                          crops |-> r.crops,
                          batch_input |-> r.batch_input, runs |-> r.runs]
               /\ timing' = IF r.runs > 0
                            THEN <<LastInferenceTiming(t["prep"], t["model"])>>
                            ELSE timing
    /\ obj' = ObjAfterCall(obj)
    /\ UNCHANGED <<thread, squat, window>>

\* Arrays a caller can hand to inference() directly: ranks 2 to 5.
SampleCrop(box) ==
    top_down_affine(DefaultSize,
                    bbox_xyxy2cs(box, Rat(PaddingNum, PaddingDen)).scale,
                    bbox_xyxy2cs(box, Rat(PaddingNum, PaddingDen)).center,
                    "frame").img

DirectInputs ==
    {[shape |-> <<256, 192>>, data |-> <<>>],
     [shape |-> <<256, 192, 3>>, data |-> <<SampleCrop(BoxTall)>>],
     [shape |-> <<1, 3, 256, 192>>, data |-> <<SampleCrop(BoxWide)>>],
     [shape |-> <<2, 3, 256, 192>>,
      data |-> <<SampleCrop(BoxTall), SampleCrop(BoxWide)>>],
     [shape |-> <<1, 1, 3, 256, 192>>, data |-> <<>>]}

\* inference(), tabulated once over the instances and the direct inputs.
InferenceTable ==
    {[o |-> o, img |-> img, r |-> Inference(o, img)] :
        o \in ReadyObjects, img \in DirectInputs}

InferenceOf(o, img) ==
    (CHOOSE e \in InferenceTable : e.o = o /\ e.img = img).r

\* inference(img) when the backend raises on the tensor it is given.
InferenceRaising(o, img) ==
    IF ~RankAccepted(Len(img.shape))
    THEN Inference(o, img)
    ELSE InferenceRunRaised(o, [shape |-> InputTensor(img).shape, data |-> <<>>])

InferenceCall ==
    /\ obj.status = "ready"
    /\ \E img \in DirectInputs :
         \E r \in {InferenceOf(obj, img)} :
           \E prep_time \in Durations, model_time \in Durations :
             /\ ret' = [op |-> "inference", img |-> img.shape, raised |-> r.raised,
                        prep_time |-> IF r.raised = "" THEN prep_time ELSE 0,
                        model_time |-> IF r.raised = "" THEN model_time ELSE 0,
                        input_tensor |-> r.input_tensor.shape,
                        outputs |-> IF r.raised = ""
                                    THEN <<r.outputs.simcc_x.shape,
                                           r.outputs.simcc_y.shape>>
                                    ELSE <<>>,
                        runs |-> r.runs]
             /\ timing' = IF r.raised = ""
                          THEN <<LastInferenceTiming(prep_time, model_time)>>
                          ELSE timing
    /\ UNCHANGED <<obj, thread, squat, window>>

\* inference(img) with the backend raising: the exception leaves inference()
\* before self._last_inference_timing is assigned.
InferenceCallRaises ==
    /\ obj.status = "ready"
    /\ \E img \in DirectInputs :
         \E r \in {InferenceRaising(obj, img)} :
             /\ r.raised = "BackendError"
             /\ ret' = [op |-> "inference", img |-> img.shape, raised |-> r.raised,
                        prep_time |-> 0, model_time |-> 0,
                        input_tensor |-> r.input_tensor.shape,
                        outputs |-> <<>>, runs |-> r.runs]
    /\ UNCHANGED <<obj, timing, thread, squat, window>>

\* RTMPose.__call__ with the backend raising: preprocess has run, inference()
\* raises out of __call__, and neither postprocess nor the return is reached.
ProcessCallRaises ==
    /\ obj.status = "ready"
    /\ \E c \in CallInputs :
        \E img \in {c.image}, bboxes \in {c.bboxes} :
         /\ ~EmptyBoxes(bboxes)
         /\ \E p \in {PipelineOf(obj, img, bboxes)} :
              \E r \in {InferenceRaising(obj, [shape |-> p.batch_input,
                                                data |-> <<>>])} :
                 ret' = [op |-> "call_raised", image |-> img, bboxes |-> bboxes,
                         raised |-> r.raised,
                         stages |-> <<"preprocess", "inference">>,
                         batch_input |-> r.input_tensor.shape,
                         runs |-> r.runs]
    /\ UNCHANGED <<obj, timing, thread, squat, window>>

\* RTMPose.preprocess(img, bboxes) called on its own: the first stage of the
\* tabulated pipeline.
PreprocessCall ==
    /\ obj.status = "ready"
    /\ \E c \in CallInputs :
        \E img \in {c.image}, bboxes \in {c.bboxes} :
         \E r \in {PipelineOf(obj, img, bboxes)} :
             ret' = [op |-> "preprocess", image |-> img, bboxes |-> bboxes,
                     batch_img_np |-> r.batch_img_np, crops |-> r.crops,
                     centers |-> r.centers, scales |-> r.scales]
    /\ UNCHANGED <<obj, timing, thread, squat, window>>

\* No video thread: the pose estimator is driven directly.
NoThread == [pc |-> "none"]

\* The squat script and the treadmill window are not running.
NoSquat == [frame_id |-> -1]
NoWindow == [recording_name |-> "none"]

Init ==
    /\ obj = NoObject
    /\ timing = <<>>
    /\ ret = [op |-> "none"]
    /\ thread = NoThread
    /\ squat = NoSquat
    /\ window = NoWindow

Next ==
    \/ Construct
    \/ ProcessCall
    \/ InferenceCall
    \/ InferenceCallRaises
    \/ ProcessCallRaises
    \/ PreprocessCall

Spec == Init /\ [][Next]_vars

----------------------------------------------------------------------------
\* The scale of one box, on its own: the loop body of RTMPose.preprocess
\* applied to a box, for an instance built with one of the target sizes.  The
\* boxes are those of the calls and every box with corners (0, 0) and (w, h).

ScaleSizes == InputSizes \cup {<<256, 192>>}

ScaleBoxes == Boxes \cup {<<0, 0, w, h>> : w \in 1..MaxSide, h \in 1..MaxSide}

ScaleObject(size) ==
    BaseToolInit([onnx_model |-> DefaultModel, model_input_size |-> size,
                  mean |-> "tuple", std |-> "tuple", to_openpose |-> FALSE, backend |-> "onnxruntime",
                  device |-> "cpu"],
                 [exists |-> TRUE, fetch_ok |-> TRUE, load_ok |-> TRUE,
                  mps_support |-> FALSE]).obj

InitScale ==
    /\ \E size \in ScaleSizes : obj = ScaleObject(size)
    /\ timing = <<>>
    /\ \E bbox \in ScaleBoxes : ret = [op |-> "bbox", bbox |-> bbox]
    /\ thread = NoThread
    /\ squat = NoSquat
    /\ window = NoWindow

ScaleStep ==
    /\ ret.op = "bbox"
    /\ \E r \in {LoopBody(obj, "frame", ret.bbox)} :
         ret' = [op |-> "scale", bbox |-> ret.bbox,
                 padded |-> bbox_xyxy2cs(ret.bbox, Rat(PaddingNum, PaddingDen)).scale,
                 center |-> r.center, scale |-> r.scale]
    /\ UNCHANGED <<obj, timing, thread, squat, window>>

\* A model output whose argmax is the middle bin for every keypoint: SimCC
\* vectors of SplitRatio * width and SplitRatio * height bins, for n crops.
CenterRow(K, bins) ==
    Array([k \in 1..K |-> [peak |-> bins \div 2, max |-> RInt(1)]])

CenterOutputs(o, n) ==
    [simcc_x |-> [shape |-> <<n, ModelKeypoints(o.onnx_model),
                              SplitRatio * o.model_input_size[1]>>,
                  data |-> Array([i \in 1..n |->
                      CenterRow(ModelKeypoints(o.onnx_model),
                                SplitRatio * o.model_input_size[1])])],
     simcc_y |-> [shape |-> <<n, ModelKeypoints(o.onnx_model),
                              SplitRatio * o.model_input_size[2]>>,
                  data |-> Array([i \in 1..n |->
                      CenterRow(ModelKeypoints(o.onnx_model),
                                SplitRatio * o.model_input_size[2])])]]

\* RTMPose.postprocess on that output, with the center and the scale of the
\* box.
DecodeStep ==
    /\ ret.op = "scale"
    /\ \E r \in {Postprocess(obj, CenterOutputs(obj, 1),
                              <<ret.center>>, <<ret.scale>>)} :
         ret' = [op |-> "decode", bbox |-> ret.bbox, center |-> ret.center,
                 scale |-> ret.scale, shape |-> r.keypoints.shape,
                 keypoints |-> r.keypoints.data[1]]
    /\ UNCHANGED <<obj, timing, thread, squat, window>>

NextScale ==
    \/ ScaleStep
    \/ DecodeStep

SpecScale == InitScale /\ [][NextScale]_vars

----------------------------------------------------------------------------
\* The video thread of the GUI (VideoProcessingThread, TreadmillVideoThread)
\* and the GUI thread that starts and stops it.  pc is the statement run()
\* executes next; main is where the GUI thread is: in its event loop ("gui"),
\* inside stop() blocked in wait() ("wait"), or past stop() ("stopped").

ThreadClasses == {"VideoProcessingThread", "TreadmillVideoThread"}

\* Who calls stop(): both windows on closeEvent, the main window also in
\* restart_video_processing.
Callers(cls) ==
    IF cls = "VideoProcessingThread"
    THEN {"closeEvent", "restart_video_processing"}
    ELSE {"closeEvent"}

\* __init__ then start(): running is False, run() has not begun.
Started(cls, starts) ==
    [cls |-> cls, pc |-> "run", running |-> FALSE, cameras |-> "none",
     frames |-> 0, main |-> "gui", caller |-> "none", stop_at |-> "none",
     starts |-> starts]

\* `if not self.initialize_models(): return`
initialize_models ==
    /\ thread.pc = "run"
    /\ \E ok \in BOOLEAN :
         thread' = [thread EXCEPT !.pc = IF ok THEN "initialize_cameras"
                                              ELSE "finished"]
    /\ UNCHANGED <<obj, timing, ret, squat, window>>

\* `if not self.initialize_cameras(): return` (initialize_camera in the
\* treadmill thread)
initialize_cameras ==
    /\ thread.pc = "initialize_cameras"
    /\ \E ok \in BOOLEAN :
         thread' = IF ok
                   THEN [thread EXCEPT !.pc = "running_true", !.cameras = "open"]
                   ELSE [thread EXCEPT !.pc = "finished"]
    /\ UNCHANGED <<obj, timing, ret, squat, window>>

\* `self.running = True`
running_true ==
    /\ thread.pc = "running_true"
    /\ thread' = [thread EXCEPT !.running = TRUE, !.pc = "while"]
    /\ UNCHANGED <<obj, timing, ret, squat, window>>

\* `while self.running:`
while_running ==
    /\ thread.pc = "while"
    /\ thread' = [thread EXCEPT !.pc = IF thread.running THEN "capture_frame"
                                                         ELSE "finally"]
    /\ UNCHANGED <<obj, timing, ret, squat, window>>

\* The capture: a frame, or none and `continue`.
capture_frame ==
    /\ thread.pc = "capture_frame"
    /\ \E frame \in {"frame", "None"} :
         thread' = [thread EXCEPT !.pc = IF frame = "None" THEN "while"
                                                          ELSE "process"]
    /\ UNCHANGED <<obj, timing, ret, squat, window>>

\* Detection, tracking, pose estimation and frame_ready.emit, or an exception
\* in one of them, caught by `except Exception` after the loop.
process_frame ==
    /\ thread.pc = "process"
    /\ \E raised \in BOOLEAN :
         thread' = IF raised
                   THEN [thread EXCEPT !.pc = "finally"]
                   ELSE [thread EXCEPT !.pc = "while",
                                       !.frames = IF thread.frames < MaxFrames
                                                  THEN thread.frames + 1
                                                  ELSE MaxFrames]
    /\ UNCHANGED <<obj, timing, ret, squat, window>>

\* `finally: self.release_cameras()`, and run() returns.
release_cameras ==
    /\ thread.pc = "finally"
    /\ thread' = [thread EXCEPT !.pc = "finished", !.cameras = "released"]
    /\ UNCHANGED <<obj, timing, ret, squat, window>>

\* run(), one statement at a time.
run ==
    \/ initialize_models
    \/ initialize_cameras
    \/ running_true
    \/ while_running
    \/ capture_frame
    \/ process_frame
    \/ release_cameras

\* stop(), first statement: `self.running = False`; the GUI thread is then in
\* self.wait().  stop_at records where run() was.
stop ==
    /\ thread.pc # "none"
    /\ thread.main = "gui"
    /\ \E caller \in Callers(thread.cls) :
         thread' = [thread EXCEPT !.running = FALSE, !.main = "wait",
                                  !.caller = caller, !.stop_at = thread.pc]
    /\ UNCHANGED <<obj, timing, ret, squat, window>>

\* QThread.wait(): returns once run() has returned.
wait ==
    /\ thread.main = "wait"
    /\ thread.pc = "finished"
    /\ thread' = [thread EXCEPT !.main = "stopped"]
    /\ UNCHANGED <<obj, timing, ret, squat, window>>

\* restart_video_processing after its stop(): start_video_processing() makes
\* a new thread object and starts it.
start_video_processing ==
    /\ thread.main = "stopped"
    /\ thread.caller = "restart_video_processing"
    /\ thread.starts < MaxStarts
    /\ thread' = Started(thread.cls, thread.starts + 1)
    /\ UNCHANGED <<obj, timing, ret, squat, window>>

InitThread ==
    /\ obj = NoObject
    /\ timing = <<>>
    /\ ret = [op |-> "none"]
    /\ \E cls \in ThreadClasses : thread = Started(cls, 1)
    /\ squat = NoSquat
    /\ window = NoWindow

NextThread ==
    \/ initialize_models
    \/ initialize_cameras
    \/ running_true
    \/ while_running
    \/ capture_frame
    \/ process_frame
    \/ release_cameras
    \/ stop
    \/ wait
    \/ start_video_processing

\* The operating system keeps scheduling a started thread, and a wait() whose
\* thread has finished returns.  Nothing obliges the GUI to call stop().
SpecThread ==
    InitThread /\ [][NextThread]_vars /\ WF_vars(run) /\ WF_vars(wait)

----------------------------------------------------------------------------
\* One pass of the body of `while self.running`, from the tracker's output to
\* frame_ready.emit: the same statements in both video threads.

\* The pose estimator initialize_models builds: RTMPose(rtmpose_model,
\* (192, 256), backend='onnxruntime', device='cuda').
ThreadPoseEstimator ==
    BaseToolInit([onnx_model |-> DefaultModel, model_input_size |-> DefaultSize,
                  mean |-> "tuple", std |-> "tuple", to_openpose |-> FALSE,
                  backend |-> "onnxruntime", device |-> "cuda"],
                 [exists |-> TRUE, fetch_ok |-> TRUE, load_ok |-> TRUE,
                  mps_support |-> FALSE]).obj

\* track.tlwh of the two boxes of the calls.
TlwhOf(bbox) == <<bbox[1], bbox[2], bbox[3] - bbox[1], bbox[4] - bbox[2]>>

\* What tracker.update returns: up to MaxBoxes + 1 tracks, some not
\* activated, with ids in the order the tracker gave them.
TrackIdOrders == {"ascending", "descending"}

TrackId(order, i, n) == IF order = "ascending" THEN i ELSE n + 1 - i

TrackLists ==
    UNION {{Array([i \in 1..n |-> [track_id |-> TrackId(order, i, n),
                                   tlwh |-> TlwhOf(f[i].bbox),
                                   is_activated |-> f[i].is_activated]]) :
                f \in [1..n -> [bbox : Boxes, is_activated : BOOLEAN]],
                order \in TrackIdOrders} :
           n \in 0..(MaxBoxes + 1)}

\* x1, y1, w, h = track.tlwh; x2, y2 = x1 + w, y1 + h
TrackBbox(track) ==
    <<track.tlwh[1], track.tlwh[2],
      track.tlwh[1] + track.tlwh[3], track.tlwh[2] + track.tlwh[4]>>

\* `if not track.is_activated: continue`
Activated(tracks) == SelectSeq(tracks, LAMBDA track : track.is_activated)

\* The two lists of step 4, appended to in the same iteration.
TrackData(tracks) ==
    Array([i \in 1..Len(Activated(tracks)) |->
              [id |-> Activated(tracks)[i].track_id,
               bbox |-> TrackBbox(Activated(tracks)[i])]])

TrackedBboxesReversed(tracks) ==
    Array([i \in 1..Len(Activated(tracks)) |->
              TrackBbox(Activated(tracks)[Len(Activated(tracks)) + 1 - i])])
TrackedBboxes(tracks) ==
    Array([i \in 1..Len(Activated(tracks)) |-> TrackBbox(Activated(tracks)[i])])

\* [kp.tolist() for kp in keypoints_array]: the rows of the array, in order.
ToLists(array) == Array([i \in 1..Len(array.data) |-> array.data[i]])

\* Steps 4 to 6: the arguments of frame_ready.emit.
FrameReady(o, frame, tracks, tracked_bboxes) ==
    [op |-> "frame_ready", frame |-> frame, tracks |-> tracks,
     track_data |-> TrackData(tracks),
     keypoints_list |-> IF Len(tracked_bboxes) > 0
                        THEN ToLists(PipelineOf(o, frame, tracked_bboxes).keypoints)
                        ELSE <<>>,
     scores_list |-> IF Len(tracked_bboxes) > 0
                     THEN ToLists(PipelineOf(o, frame, tracked_bboxes).scores)
                     ELSE <<>>]

\* The frames and tracker outputs explored: those whose activated boxes make
\* one of the calls explored.
LoopInputs ==
    {i \in [op : {"tracks"}, frame : Frames, tracks : TrackLists] :
        [image |-> i.frame, bboxes |-> TrackedBboxes(i.tracks)] \in CallInputs}

InitLoop ==
    /\ obj = ThreadPoseEstimator
    /\ timing = <<>>
    /\ ret \in LoopInputs
    /\ thread = NoThread
    /\ squat = NoSquat
    /\ window = NoWindow

emit_frame_ready ==
    /\ ret.op = "tracks"
    /\ ret' = FrameReady(obj, ret.frame, ret.tracks, TrackedBboxes(ret.tracks))
    /\ UNCHANGED <<obj, timing, thread, squat, window>>

NextLoop == emit_frame_ready

SpecLoop == InitLoop /\ [][NextLoop]_vars

----------------------------------------------------------------------------
\* The squat counter of lab_mocap_2Dsquat.py: the frame loop, and inside it
\* the loop over the persons of the frame (step 7).  Scores are in tenths.

SQUAT_VALIDATION_FRAMES == 3
ConfidenceTenths == 5

\* The left hip, knee and ankle of one person: scores, and the y of hip and
\* knee (y grows downwards).
PersonBelow == [hip_score |-> 9, knee_score |-> 9, ankle_score |-> 9,
                hip_y |-> 300, knee_y |-> 250]
PersonAbove == [hip_score |-> 9, knee_score |-> 9, ankle_score |-> 9,
                hip_y |-> 200, knee_y |-> 250]
PersonLevel == [hip_score |-> 8, knee_score |-> 6, ankle_score |-> 7,
                hip_y |-> 250, knee_y |-> 250]
PersonLow == [hip_score |-> 5, knee_score |-> 9, ankle_score |-> 9,
              hip_y |-> 300, knee_y |-> 250]
Persons == {PersonBelow, PersonAbove, PersonLevel, PersonLow}

PersonLists == UNION {[1..n -> Persons] : n \in 0..MaxPersons}

\* `if hip_score > 0.5 and knee_score > 0.5 and ankle_score > 0.5`
Confident(person) ==
    /\ person.hip_score > ConfidenceTenths
    /\ person.knee_score > ConfidenceTenths
    /\ person.ankle_score > ConfidenceTenths

\* hip_below_knee = hip_pos[1] > knee_pos[1]
hip_below_knee(person) == person.hip_y > person.knee_y

\* The `else` branch: the hip is above the knee.
StandingKeepsSquat(c) ==
    [c EXCEPT !.squat_rep_count = IF c.in_squat_position THEN @ + 1 ELSE @,
              !.consecutive_squat_frames = 0]
Standing(c) ==
    [c EXCEPT !.squat_rep_count = IF c.in_squat_position THEN @ + 1 ELSE @,
              !.in_squat_position = FALSE,
              !.consecutive_squat_frames = 0]

\* The `if hip_below_knee` branch, given the counter already incremented.
Validate(c) ==
    IF c.consecutive_squat_frames >= SQUAT_VALIDATION_FRAMES /\ ~c.in_squat_position
    THEN [c EXCEPT !.in_squat_position = TRUE]
    ELSE c

Squatting(c) ==
    Validate([c EXCEPT !.consecutive_squat_frames = @ + 1])

\* One iteration of the loop over persons, on the three counters c.
SquatTracking(c, person) ==
    IF ~Confident(person) THEN c
    ELSE IF hip_below_knee(person) THEN Squatting(c)
    ELSE Standing(c)

Counters(q) ==
    [squat_rep_count |-> q.squat_rep_count,
     consecutive_squat_frames |-> q.consecutive_squat_frames,
     in_squat_position |-> q.in_squat_position]

\* The frames in a row, up to this one, in which a hip was seen below the
\* knee: run counts them up to the previous frame, seen is for this frame.
FramesInARow(q) == q.run + (IF q.seen THEN 1 ELSE 0)

InitSquat ==
    /\ obj = NoObject
    /\ timing = <<>>
    /\ ret = [op |-> "none"]
    /\ thread = NoThread
    /\ window = NoWindow
    /\ squat = [frame_id |-> 0, persons |-> <<>>,
                squat_rep_count |-> 0, consecutive_squat_frames |-> 0,
                in_squat_position |-> FALSE,
                run |-> 0, seen |-> FALSE, validations |-> 0,
                validated_after |-> 0]

\* A frame is read and its persons' keypoints estimated: frame_id += 1.
read_frame ==
    /\ squat.frame_id >= 0
    /\ squat.persons = <<>>
    /\ squat.frame_id < MaxSquatFrames
    /\ \E persons \in PersonLists :
         squat' = [squat EXCEPT !.frame_id = @ + 1,
                                !.persons = persons,
                                !.run = IF squat.seen THEN @ + 1 ELSE 0,
                                !.seen = FALSE]
    /\ UNCHANGED <<obj, timing, ret, thread, window>>

\* One iteration of `for i, (keypoints, kpt_scores) in enumerate(zip(...))`.
squat_tracking ==
    /\ squat.frame_id >= 0
    /\ squat.persons # <<>>
    /\ \E person \in {Head(squat.persons)} :
       \E c \in {SquatTracking(Counters(squat), person)} :
       \E seen \in {squat.seen \/ (Confident(person) /\ hip_below_knee(person))} :
       \E validated \in {c.in_squat_position /\ ~squat.in_squat_position} :
         squat' = [squat EXCEPT
                     !.persons = Tail(@),
                     !.squat_rep_count = c.squat_rep_count,
                     !.consecutive_squat_frames = c.consecutive_squat_frames,
                     !.in_squat_position = c.in_squat_position,
                     !.seen = seen,
                     !.validations = IF validated THEN @ + 1 ELSE @,
                     !.validated_after =
                        IF validated
                        THEN FramesInARow([squat EXCEPT !.seen = seen])
                        ELSE @]
    /\ UNCHANGED <<obj, timing, ret, thread, window>>

NextSquat == read_frame \/ squat_tracking

SpecSquat == InitSquat /\ [][NextSquat]_vars

----------------------------------------------------------------------------
\* segment_strides(data, footstrike_indices, frames) of gait_analysis.py.
\* A series is the list of its samples, sample k of series s being <<s, k>>
\* with k counted from 0 as the code's indices are.

Series(name, n) == Array([k \in 1..n |-> <<name, k - 1>>])

Min(a, b) == IF a < b THEN a ELSE b

\* list[first:last] for 0 <= first <= last.
Slice(list, first, last) == SubSeq(list, first + 1, Min(last, Len(list)))

\* The indices find_peaks returns on a series of n samples: increasing,
\* inside the series.
Increasing(S) ==
    CHOOSE f \in [1..Cardinality(S) -> S] : \A i, j \in 1..Cardinality(S) :
                                                i < j => f[i] < f[j]

FootstrikeLists(n) == {Array(Increasing(S)) : S \in SUBSET (0..(n - 1))}

\* The body of the loop for stride i (i counted from 1 here, from 0 there).
StrideSeries(data, i, start_idx, end_idx) ==
    [hip_angles |-> Slice(data.hip_angles, start_idx, end_idx + 1),
     knee_angles |-> Slice(data.knee_angles, start_idx, end_idx + 1),
     ankle_x |-> Slice(data.ankle_x, start_idx, end_idx + 1),
     ankle_y |-> Slice(data.ankle_y, start_idx, end_idx + 1),
     start_frame |-> start_idx,
     end_frame |-> end_idx,
     stride_number |-> i]

StrideWithFrames(stride, frames, start_idx, end_idx) ==
    [k \in DOMAIN stride \cup {"frames"} |->
        IF k = "frames" THEN Slice(frames[1], start_idx, end_idx + 1) ELSE stride[k]]

\* frames is <<>> for None and <<list>> for a list.
FramesGiven(frames, end_idx) == frames # <<>> /\ Len(frames[1]) > end_idx

Stride(data, i, start_idx, end_idx, frames) ==
    IF FramesGiven(frames, end_idx)
    THEN StrideWithFrames(StrideSeries(data, i, start_idx, end_idx), frames,
                          start_idx, end_idx)
    ELSE StrideSeries(data, i, start_idx, end_idx)

segment_strides(data, footstrike_indices, frames) ==
    IF Len(footstrike_indices) < 2 THEN <<>>
    ELSE Array([i \in 1..(Len(footstrike_indices) - 1) |->
                   Stride(data, i, footstrike_indices[i],
                          footstrike_indices[i + 1], frames)])

\* The calls explored: n ankle samples, hip and knee series no longer than
\* that (update_display appends an ankle sample whenever it appends an
\* angle), footstrikes found in the ankle series, frames absent or a list.
StrideInputs ==
    UNION {[op : {"segment_strides"},
            data : [hip_angles : {Series("hip_angles", m) : m \in 0..n},
                    knee_angles : {Series("knee_angles", m) : m \in 0..n},
                    ankle_x : {Series("ankle_x", n)},
                    ankle_y : {Series("ankle_y", n)}],
            footstrike_indices : FootstrikeLists(n),
            frames : {<<>>} \cup {<<Series("frames", m)>> : m \in 0..MaxSamples}] :
           n \in 0..MaxSamples}

InitStrides ==
    /\ obj = NoObject
    /\ timing = <<>>
    /\ ret \in StrideInputs
    /\ thread = NoThread
    /\ squat = NoSquat
    /\ window = NoWindow

SegmentStridesCall ==
    /\ ret.op = "segment_strides"
    /\ ret' = [op |-> "strides", data |-> ret.data,
               footstrike_indices |-> ret.footstrike_indices,
               frames |-> ret.frames,
               strides |-> segment_strides(ret.data, ret.footstrike_indices,
                                           ret.frames)]
    /\ UNCHANGED <<obj, timing, thread, squat, window>>

NextStrides == SegmentStridesCall

SpecStrides == InitStrides /\ [][NextStrides]_vars

----------------------------------------------------------------------------
\* The treadmill window: RecordingWidget, TreadmillMainWindow as its listener
\* and as the slot of frame_ready, and the analysis threads it starts.  The
\* handlers run one at a time on the GUI thread; an analysis thread runs
\* beside them.  A recorded sample is the number of the frame it is from.

MinGaitSamples == 30

\* What the name field can hold when the record button is clicked.
NameTexts == {"", " walk "}

\* recording_name = self.name_input.text().strip(), "test_00" if empty.
Strip(text) == IF text = " walk " THEN "walk" ELSE text
RecordingName(text) == IF Strip(text) = "" THEN "test_00" ELSE Strip(text)

EmptyRecording ==
    [hip_angles |-> <<>>, knee_angles |-> <<>>, ankle_coords |-> <<>>,
     frames |-> <<>>]

\* RecordingWidget.__init__ and TreadmillMainWindow.__init__.
InitialWindow ==
    [widget_is_recording |-> FALSE, name_input_enabled |-> TRUE,
     is_recording |-> FALSE, recording_name |-> "",
     recording_data |-> EmptyRecording, frame_count |-> 0,
     signals |-> <<>>, was_reset |-> FALSE, frame |-> 0, analyses |-> <<>>]

\* on_recording_started(recording_name)
on_recording_started(w, recording_name) ==
    [w EXCEPT !.is_recording = TRUE,
              !.recording_name = recording_name,
              !.frame_count = 0,
              !.recording_data = EmptyRecording,
              !.signals = Append(@, "recording_started")]

\* on_recording_stopped(): an analysis thread is started; stopped is what the
\* recording held at that moment.
on_recording_stopped(w) ==
    [w EXCEPT !.is_recording = FALSE,
              !.signals = Append(@, "recording_stopped"),
              !.analyses = Append(@, [pc |-> "output_dir",
                                      stopped |-> [name |-> w.recording_name,
                                                   data |-> w.recording_data],
                                      output_dir |-> "", csv_name |-> "",
                                      csv_rows |-> <<>>, video_name |-> "",
                                      video_frames |-> <<>>, analysed |-> ""])]

\* RecordingWidget.toggle_recording, with the slots its signals call.
toggle_recording ==
    /\ window.recording_name # "none"
    /\ Len(window.signals) < MaxSignals
    /\ IF ~window.widget_is_recording
       THEN \E text \in NameTexts :
              window' = on_recording_started(
                          [window EXCEPT !.widget_is_recording = TRUE,
                                         !.name_input_enabled = FALSE],
                          RecordingName(text))
       ELSE window' = on_recording_stopped(
                          [window EXCEPT !.widget_is_recording = FALSE,
                                         !.name_input_enabled = TRUE])
    /\ UNCHANGED <<obj, timing, ret, thread, squat>>

\* RecordingWidget.reset
reset ==
    /\ window.recording_name # "none"
    /\ window' = [window EXCEPT !.widget_is_recording = FALSE,
                                !.name_input_enabled = TRUE,
                                !.was_reset = TRUE]
    /\ UNCHANGED <<obj, timing, ret, thread, squat>>

\* What a frame_ready emission can be for the window: no track, or a track
\* whose hip angle, knee angle, both or neither can be computed.
Emissions ==
    {[tracked |-> FALSE, hip |-> FALSE, knee |-> FALSE]}
    \cup [tracked : {TRUE}, hip : BOOLEAN, knee : BOOLEAN]

\* The appends of update_display while recording, for frame number f.
Recorded(data, e, f) ==
    [hip_angles |-> IF e.tracked /\ e.hip THEN Append(data.hip_angles, f)
                    ELSE data.hip_angles,
     knee_angles |-> IF e.tracked /\ e.knee THEN Append(data.knee_angles, f)
                     ELSE data.knee_angles,
     ankle_coords |-> IF e.tracked THEN Append(data.ankle_coords, f)
                      ELSE data.ankle_coords,
     frames |-> Append(data.frames, f)]

\* TreadmillMainWindow.update_display
update_display ==
    /\ window.recording_name # "none"
    /\ window.frame < MaxUpdates
    /\ \E e \in Emissions :
         window' = IF window.is_recording
                   THEN [window EXCEPT
                           !.frame = @ + 1,
                           !.recording_data = Recorded(@, e, window.frame + 1),
                           !.frame_count = @ + 1]
                   ELSE [window EXCEPT !.frame = @ + 1]
    /\ UNCHANGED <<obj, timing, ret, thread, squat>>

\* save_csv: one row per hip angle, the other columns by the same index.
Cell(list, i) == IF i <= Len(list) THEN <<list[i]>> ELSE <<>>

CsvRows(data) ==
    Array([i \in 1..Len(data.hip_angles) |->
              [frame |-> i - 1, hip_angle |-> Cell(data.hip_angles, i),
               knee_angle |-> Cell(data.knee_angles, i),
               ankle |-> Cell(data.ankle_coords, i)]])

\* analyze_and_save_recording, statement by statement, in analysis thread a:
\* each statement reads self.recording_name and self.recording_data anew.
AnalysisStep(w, a) ==
    IF a.pc = "output_dir"
    THEN [a EXCEPT !.pc = "save_csv", !.output_dir = w.recording_name]
    ELSE IF a.pc = "save_csv"
    THEN [a EXCEPT !.pc = "save_video", !.csv_name = w.recording_name,
                   !.csv_rows = CsvRows(w.recording_data)]
    ELSE IF a.pc = "save_video"
    THEN [a EXCEPT !.pc = "analyze_recording", !.video_name = w.recording_name,
                   !.video_frames = w.recording_data.frames]
    ELSE [a EXCEPT !.pc = "done",
                   !.analysed = IF Len(w.recording_data.hip_angles) > MinGaitSamples
                                THEN w.recording_name
                                ELSE "Not enough data"]

analyze_and_save_recording ==
    /\ window.recording_name # "none"
    /\ \E i \in 1..Len(window.analyses) :
         /\ window.analyses[i].pc # "done"
         /\ window' = [window EXCEPT
                         !.analyses[i] = AnalysisStep(window, window.analyses[i])]
    /\ UNCHANGED <<obj, timing, ret, thread, squat>>

InitWindow ==
    /\ obj = NoObject
    /\ timing = <<>>
    /\ ret = [op |-> "none"]
    /\ thread = NoThread
    /\ squat = NoSquat
    /\ window = InitialWindow

NextWindow ==
    \/ toggle_recording
    \/ reset
    \/ update_display
    \/ analyze_and_save_recording

SpecWindow == InitWindow /\ [][NextWindow]_vars

----------------------------------------------------------------------------
\* RTMPose.__call__ statement by statement, for calls with boxes made on one
\* instance by two threads: the backend run (line 63) stores its durations
\* on the instance, lines 67 and 68 read them back.

CallThreads == {1, 2}

IdleCall ==
    [pc |-> "idle", before |-> <<>>, shared |-> FALSE,
     run |-> [prep |-> 0, model |-> 0],
     timing_info |-> [prep |-> 0, model |-> 0]]

InFlight(call) == call.pc \in {"preprocessed", "inferred", "prep_read"}

\* self._last_inference_timing.get(key, 0)
TimingGetDefault(snapshot, key) == 0

TimingGet(snapshot, key) == snapshot[1][key]

\* Lines 32-61: the call begins and preprocesses its boxes.  before is what
\* the instance held then; shared tells that another call was in flight
\* at some moment of this one.
call_preprocess(c) ==
    /\ ret.op = "calls"
    /\ ret.calls[c].pc \in {"idle", "returned"}
    /\ ret' = [ret EXCEPT !.calls =
                 [d \in CallThreads |->
                    IF d = c
                    THEN [IdleCall EXCEPT
                            !.pc = "preprocessed", !.before = timing,
                            !.shared = \E e \in CallThreads \ {c} :
                                          InFlight(ret.calls[e])]
                    ELSE IF InFlight(ret.calls[d])
                    THEN [ret.calls[d] EXCEPT !.shared = TRUE]
                    ELSE ret.calls[d]]]
    /\ UNCHANGED <<obj, timing, thread, squat, window>>

\* Line 63: self.inference(batch_input) returns and has stored its durations.
call_inference(c) ==
    /\ ret.op = "calls"
    /\ ret.calls[c].pc = "preprocessed"
    /\ \E prep_time \in Durations, model_time \in Durations :
         /\ timing' = <<LastInferenceTiming(prep_time, model_time)>>
         /\ ret' = [ret EXCEPT !.calls[c].pc = "inferred",
                               !.calls[c].run = [prep |-> prep_time,
                                                 model |-> model_time]]
    /\ UNCHANGED <<obj, thread, squat, window>>

\* Line 63: the backend raises; the call ends without a record.
call_inference_raises(c) ==
    /\ ret.op = "calls"
    /\ ret.calls[c].pc = "preprocessed"
    /\ ret' = [ret EXCEPT !.calls[c] = IdleCall]
    /\ UNCHANGED <<obj, timing, thread, squat, window>>

\* Line 67: prep_timing = self._last_inference_timing.get('prep', 0)
call_read_prep(c) ==
    /\ ret.op = "calls"
    /\ ret.calls[c].pc = "inferred"
    /\ ret' = [ret EXCEPT !.calls[c].pc = "prep_read",
                          !.calls[c].timing_info.prep = TimingGet(timing, "prep")]
    /\ UNCHANGED <<obj, timing, thread, squat, window>>

\* Line 68, and the record returned at line 92.
call_read_model(c) ==
    /\ ret.op = "calls"
    /\ ret.calls[c].pc = "prep_read"
    /\ ret' = [ret EXCEPT !.calls[c].pc = "returned",
                          !.calls[c].timing_info.model = TimingGet(timing, "model")]
    /\ UNCHANGED <<obj, timing, thread, squat, window>>

InitCalls ==
    /\ obj = ThreadPoseEstimator
    /\ timing = <<>>
    /\ ret = [op |-> "calls", calls |-> [c \in CallThreads |-> IdleCall]]
    /\ thread = NoThread
    /\ squat = NoSquat
    /\ window = NoWindow

NextCalls ==
    \E c \in CallThreads :
        \/ call_preprocess(c)
        \/ call_inference(c)
        \/ call_inference_raises(c)
        \/ call_read_prep(c)
        \/ call_read_model(c)

SpecCalls == InitCalls /\ [][NextCalls]_vars

----------------------------------------------------------------------------
\* The cameras of VideoProcessingThread and the AppConfig object it shares
\* with the main window and the input dialog.

CameraUrls == 1..4
CameraModes == {"single_ip", "all_ip", "single_gopro"}

\* AppConfig.__init__: the fields the cameras depend on.
AppConfig == [camera_mode |-> "single", selected_camera |-> 4]

\* initialize_cameras: what is open afterwards, and whether it returns True.
\* GoProCam.open() can raise; cv2.VideoCapture does not.
InitializeCameras(config, gopro_opens) ==
    IF config.camera_mode = "single_ip"
    THEN [ok |-> config.selected_camera \in CameraUrls,
          cameras |-> {config.selected_camera} \cap CameraUrls,
          gopro_cam |-> FALSE]
    ELSE IF config.camera_mode = "all_ip"
    THEN [ok |-> TRUE, cameras |-> CameraUrls, gopro_cam |-> FALSE]
    ELSE IF config.camera_mode = "single_gopro"
    THEN [ok |-> gopro_opens, cameras |-> {}, gopro_cam |-> gopro_opens]
    ELSE [ok |-> TRUE, cameras |-> {}, gopro_cam |-> FALSE]

\* capture_frame with the configuration as it is when the call reads it:
\* a frame, the pair (None, None), or the exception that ends the loop.
\* Falling off the end returns None, which `frame, angle_camera = ...`
\* cannot unpack.
CaptureFrame(config, cameras, gopro_cam, read_ok) ==
    IF config.camera_mode = "single_gopro"
    THEN IF ~gopro_cam THEN "AttributeError"
         ELSE IF ~read_ok THEN "NonePair" ELSE "frame"
    ELSE IF cameras # {} /\ ~read_ok THEN "NonePair"
    ELSE IF config.camera_mode = "single_ip"
    THEN IF config.selected_camera \in cameras THEN "frame" ELSE "KeyError"
    ELSE IF config.camera_mode = "all_ip"
    THEN IF CameraUrls \subseteq cameras THEN "frame" ELSE "KeyError"
    ELSE "TypeError"

Raised(outcome) == outcome \in {"AttributeError", "KeyError", "TypeError"}

\* What capture_frame read of the configuration: selected_camera is read in
\* single_ip mode only.
ConfigRead(config) ==
    [camera_mode |-> config.camera_mode,
     selected_camera |-> IF config.camera_mode = "single_ip"
                         THEN config.selected_camera ELSE 0]

\* MainWindow.start_video_processing: a new thread on the shared config.
StartedOn(config, starts) ==
    [pc |-> "initialize_cameras", config |-> config, running |-> FALSE,
     cameras |-> {}, gopro_cam |-> FALSE, opened_with |-> ConfigRead(config),
     read |-> ConfigRead(config), outcome |-> "none",
     error_occurred |-> "", main |-> "gui", chosen |-> AppConfig,
     changed |-> FALSE, starts |-> starts]

\* run(): initialize_cameras, then self.running = True.
run_initialize_cameras ==
    /\ thread.pc = "initialize_cameras"
    /\ \E gopro_opens \in BOOLEAN :
         \E r \in {InitializeCameras(thread.config, gopro_opens)} :
           thread' = IF r.ok
                     THEN [thread EXCEPT !.pc = "while", !.running = TRUE,
                                         !.cameras = r.cameras,
                                         !.gopro_cam = r.gopro_cam,
                                         !.opened_with = ConfigRead(thread.config)]
                     ELSE [thread EXCEPT !.pc = "finished",
                                         !.error_occurred =
                                             "Failed to initialize cameras"]
    /\ UNCHANGED <<obj, timing, ret, squat, window>>

\* One pass of `while self.running`: capture_frame and the rest of the body,
\* the exception handler and the finally clause.
run_loop ==
    /\ thread.pc = "while"
    /\ IF ~thread.running
       THEN thread' = [thread EXCEPT !.pc = "finished", !.cameras = {},
                                     !.gopro_cam = FALSE]
       ELSE \E read_ok \in BOOLEAN :
              \E outcome \in {CaptureFrame(thread.config, thread.cameras,
                                            thread.gopro_cam, read_ok)} :
                thread' = IF Raised(outcome)
                          THEN [thread EXCEPT
                                  !.pc = "finished", !.outcome = outcome,
                                  !.read = ConfigRead(thread.config),
                                  !.error_occurred = "Error in processing loop",
                                  !.cameras = {}, !.gopro_cam = FALSE]
                          ELSE [thread EXCEPT
                                  !.outcome = outcome,
                                  !.read = ConfigRead(thread.config)]
    /\ UNCHANGED <<obj, timing, ret, squat, window>>

\* MainWindow.show_input_dialog up to dialog.exec_().
show_input_dialog ==
    /\ thread.pc # "none"
    /\ thread.main = "gui"
    /\ thread' = [thread EXCEPT !.main = "dialog"]
    /\ UNCHANGED <<obj, timing, ret, squat, window>>

\* InputDialog.apply_changes, first assignment: config.camera_mode.
apply_changes ==
    /\ thread.pc # "none"
    /\ thread.main = "dialog"
    /\ \E mode \in CameraModes, cam_id \in CameraUrls :
         thread' = [thread EXCEPT
                      !.config.camera_mode = mode,
                      !.chosen = [camera_mode |-> mode, selected_camera |-> cam_id],
                      !.changed = TRUE,
                      !.main = IF mode = "single_ip" THEN "apply_changes"
                                                     ELSE "accepted"]
    /\ UNCHANGED <<obj, timing, ret, squat, window>>

\* InputDialog.apply_changes, second assignment: config.selected_camera.
apply_selected_camera ==
    /\ thread.pc # "none"
    /\ thread.main = "apply_changes"
    /\ thread' = [thread EXCEPT
                    !.config.selected_camera = thread.chosen.selected_camera,
                    !.main = "accepted"]
    /\ UNCHANGED <<obj, timing, ret, squat, window>>

\* InputDialog.reject: the original values are written back.
reject ==
    /\ thread.pc # "none"
    /\ thread.main = "dialog"
    /\ thread' = [thread EXCEPT !.main = "gui"]
    /\ UNCHANGED <<obj, timing, ret, squat, window>>

\* restart_video_processing: video_thread.stop() clears running and waits.
restart_stop ==
    /\ thread.pc # "none"
    /\ thread.main = "accepted"
    /\ thread' = [thread EXCEPT !.running = FALSE, !.main = "wait"]
    /\ UNCHANGED <<obj, timing, ret, squat, window>>

\* restart_video_processing: wait() has returned, start_video_processing.
restart_start ==
    /\ thread.pc = "finished"
    /\ thread.main = "wait"
    /\ thread.starts < MaxStarts
    /\ thread' = StartedOn(thread.config, thread.starts + 1)
    /\ UNCHANGED <<obj, timing, ret, squat, window>>

InitCameras ==
    /\ obj = NoObject
    /\ timing = <<>>
    /\ ret = [op |-> "none"]
    /\ thread = StartedOn(AppConfig, 1)
    /\ squat = NoSquat
    /\ window = NoWindow

NextCameras ==
    \/ run_initialize_cameras
    \/ run_loop
    \/ show_input_dialog
    \/ apply_changes
    \/ apply_selected_camera
    \/ reject
    \/ restart_stop
    \/ restart_start

SpecCameras == InitCameras /\ [][NextCameras]_vars

----------------------------------------------------------------------------
\* Properties of RTMPose.__call__ and BaseTool.inference.

IsCall == ret.op = "call"
IsEmptyCall == IsCall /\ ret.bboxes = <<>>
IsBoxedCall == IsCall /\ ret.bboxes # <<>>

\* The bijections of 1..n, and a list taken in the order f.
Permutations(n) ==
    {f \in [1..n -> 1..n] : \A i, j \in 1..n : f[i] = f[j] => i = j}
Permuted(list, f) == [i \in 1..Len(list) |-> list[f[i]]]

\* C1 (as the claim states it): every call with N boxes returns keypoints of
\* shape (N, 17, 2) and scores of shape (N, 17), with the empty path's 17 on
\* the general path too.
C1_FixedKeypointCount ==
    IsCall => /\ ret.keypoints.shape = <<Len(ret.bboxes), NumKeypointsDefault, 2>>
              /\ ret.scores.shape = <<Len(ret.bboxes), NumKeypointsDefault>>

\* C2: row i of the keypoints and of the scores is what box i alone gives, and
\* the call on any permutation of the boxes returns the rows in that order.
C2_BoxOrderPreserved ==
    IsBoxedCall =>
        /\ \A i \in 1..Len(ret.bboxes) :
             /\ ret.keypoints.data[i] =
                  PipelineOf(obj, ret.image, <<ret.bboxes[i]>>).keypoints.data[1]
             /\ ret.scores.data[i] =
                  PipelineOf(obj, ret.image, <<ret.bboxes[i]>>).scores.data[1]
        /\ \A f \in Permutations(Len(ret.bboxes)) :
             \A i \in 1..Len(ret.bboxes) :
               /\ PipelineOf(obj, ret.image, Permuted(ret.bboxes, f)).keypoints.data[i]
                    = ret.keypoints.data[f[i]]
               /\ PipelineOf(obj, ret.image, Permuted(ret.bboxes, f)).scores.data[i]
                    = ret.scores.data[f[i]]

\* A call with two different boxes whose rows differ.
C2_Witness ==
    /\ IsCall
    /\ Len(ret.bboxes) = 2
    /\ ret.bboxes[1] # ret.bboxes[2]
    /\ ret.keypoints.data[1] # ret.keypoints.data[2]

\* C3: a call executes the backend once if it has a box and not at all if it
\* has none, and a call with no box runs no stage of the pipeline.
C3_EmptyCallSkipsBackend ==
    IsCall => /\ ret.runs = (IF ret.bboxes = <<>> THEN 0 ELSE 1)
              /\ ret.bboxes = <<>> => ret.stages = <<>>
              /\ ret.bboxes # <<>> => ret.stages[2] = "inference"

\* A call with no box made after the backend has run for an earlier call.
C3_Witness == IsEmptyCall /\ timing # <<>> /\ ret.runs = 0

\* C4 (as the claim states it): the timing record of a call with no box has
\* every duration, total included, at zero and the field num_boxes at 0.
C4_AllDurationsZero ==
    IsEmptyCall =>
        /\ ret.timing_info.total = 0
        /\ ret.timing_info.preprocess = 0 /\ ret.timing_info.prep = 0
        /\ ret.timing_info.model = 0 /\ ret.timing_info.postprocess = 0
        /\ "num_boxes" \in DOMAIN ret.timing_info
        /\ ret.timing_info.num_boxes = 0

\* C4 (amended): the record has the fields total, preprocess, prep, model,
\* postprocess and num_bboxes; the four stage durations and num_bboxes are 0,
\* and total is the time the call measured, which is not negative.
C4_EmptyCallTiming ==
    IsEmptyCall =>
        /\ DOMAIN ret.timing_info =
             {"total", "preprocess", "prep", "model", "postprocess", "num_bboxes"}
        /\ ret.timing_info.preprocess = 0 /\ ret.timing_info.prep = 0
        /\ ret.timing_info.model = 0 /\ ret.timing_info.postprocess = 0
        /\ ret.timing_info.num_bboxes = 0
        /\ ret.timing_info.total \in Durations

\* A call with no box whose measured total is not zero.
C4_Witness == IsEmptyCall /\ ret.timing_info.total > 0

\* C5: inference() turns a rank-3 (H, W, C) input into the batch (1, C, H, W),
\* hands a rank-4 input to the backend as it is, and for any other rank raises
\* ValueError without executing the backend.
C5_RankHandling ==
    ret.op = "inference" =>
        /\ Len(ret.img) = 3 =>
             /\ ret.raised # "ValueError"
             /\ ret.input_tensor = <<1, ret.img[3], ret.img[1], ret.img[2]>>
             /\ ret.runs = 1
             /\ ret.raised = "" => ret.outputs[1][1] = 1
        /\ Len(ret.img) = 4 =>
             /\ ret.raised # "ValueError"
             /\ ret.input_tensor = ret.img
             /\ ret.runs = 1
             /\ ret.raised = "" => ret.outputs[1][1] = ret.img[1]
        /\ Len(ret.img) \notin {3, 4} =>
             /\ ret.raised = "ValueError"
             /\ ret.runs = 0 /\ ret.outputs = <<>>

\* A rank-3 input that was batched and run.
C5_Witness ==
    /\ ret.op = "inference"
    /\ Len(ret.img) = 3
    /\ ret.input_tensor[1] = 1
    /\ ret.runs = 1

----------------------------------------------------------------------------
\* Properties of the constructor.

IsInit == ret.op = "init"

\* The combinations the constructor has a target for: the entries of
\* RTMLIB_SETTINGS ('mps' only with CoreML available) and OpenVINO on the CPU.
Supported(backend, device, mps_support) ==
    \/ backend = "opencv" /\ device \in {"cpu", "cuda"}
    \/ backend = "onnxruntime" /\ device \in {"cpu", "cuda", "rocm"}
    \/ backend = "onnxruntime" /\ device = "mps" /\ mps_support
    \/ backend = "openvino" /\ device = "cpu"

\* The device a loaded session executes on.
TargetDevice(provider) ==
    CASE provider \in {"DNN_TARGET_CPU", "CPUExecutionProvider", "CPU"} -> "cpu"
      [] provider \in {"DNN_TARGET_CUDA", "CUDAExecutionProvider"} -> "cuda"
      [] provider = "ROCMExecutionProvider" -> "rocm"
      [] provider = "CoreMLExecutionProvider" -> "mps"
      [] OTHER -> "none"

\* The session-creating steps of the three backends.
SessionEvents == {"readNetFromONNX", "InferenceSession", "read_model", "compile_model"}

\* C6 (as the claim states it): a constructor call with an unsupported
\* backend/device combination raises, and an instance that was built executes
\* on the backend and the device that were asked for.
C6_UnsupportedCombinationIsFatal ==
    IsInit =>
        /\ ~Supported(ret.backend, ret.device, ret.mps_support) => ret.raised # ""
        /\ obj.status = "ready" =>
             /\ obj.backend = ret.backend
             /\ TargetDevice(obj.provider) = ret.device

\* C7 (as the claim states it): a backend outside the three known ones, an
\* unsupported combination, or a model that cannot be fetched or loaded makes
\* the constructor raise and leaves no instance.
C7_ConfigurationErrorFails ==
    (/\ IsInit
     /\ \/ ret.backend \notin {"opencv", "onnxruntime", "openvino"}
        \/ ~Supported(ret.backend, ret.device, ret.mps_support)
        \/ ~ret.exists /\ ~ret.fetch_ok
        \/ ~ret.load_ok)
    => /\ ret.raised # ""
       /\ obj.status = "failed"
       /\ ~obj.session

\* C7, without the unsupported combinations: the other two kinds of
\* configuration error do make the constructor raise.
ConfigurationErrorFailsWhenSupported ==
    (/\ IsInit
     /\ \/ ret.backend \notin {"opencv", "onnxruntime", "openvino"}
        \/ ~ret.exists /\ ~ret.fetch_ok
        \/ ~ret.load_ok)
    => /\ ret.raised # ""
       /\ obj.status = "failed"
       /\ ~obj.session

Fetches == {i \in 1..Len(ret.events) : ret.events[i] = "download_checkpoint"}
Sessions == {i \in 1..Len(ret.events) : ret.events[i] \in SessionEvents}

\* C8: the constructor fetches once if the model path does not exist and not
\* at all if it does, before any session step; when the fetch fails the
\* constructor raises having fetched once and created no session.
C8_FetchOnlyWhenAbsent ==
    IsInit =>
        /\ Cardinality(Fetches) = (IF ret.exists THEN 0 ELSE 1)
        /\ \A i \in Fetches : \A j \in Sessions : i < j
        /\ (~ret.exists /\ ~ret.fetch_ok) =>
             /\ ret.raised # ""
             /\ obj.status = "failed"
             /\ ~obj.session
             /\ Sessions = {}
             /\ ret.events = <<"download_checkpoint">>
        /\ obj.session => Sessions # {}

\* A constructor call whose model path was absent and whose fetch failed.
C8_Witness ==
    /\ IsInit
    /\ ~ret.exists /\ ~ret.fetch_ok
    /\ ret.events = <<"download_checkpoint">>
    /\ obj.status = "failed"

----------------------------------------------------------------------------
\* Properties of the scale.

\* Row i of the result when the decoder is given this center and this scale:
\* the network's output for the crop, decoded and (if asked) relabelled.
DecodedRow(o, crop, center, scale) ==
    DecodeItem(o,
               get_simcc_maximum(NetRowX(o, crop, o.model_input_size[1]),
                                 NetRowY(o, crop, o.model_input_size[2])),
               center, scale).keypoints

FinalRow(o, row) == IF o.to_openpose THEN Relabel(row) ELSE row

\* Box i of the last call was decoded with the center cs.center and with the
\* scale td.scale that top_down_affine returned for it.
DecodedWith(o, i, cs, td) ==
    /\ ret.centers[i] = cs.center
    /\ ret.scales[i] = td.scale
    /\ ret.keypoints.data[i] =
         FinalRow(o, DecodedRow(o, LoopAppend(o, cs, td).crop, cs.center, td.scale))

DecodedWithAdjusted(o, img, i, cs) ==
    DecodedWith(o, i, cs, top_down_affine(o.model_input_size, cs.scale, cs.center, img))

\* C9: for every box i of a call, the keypoints of row i are decoded with the
\* center of box i and with the adjusted scale top_down_affine returned for
\* box i.
C9_DecoderUsesAdjustedScale ==
    IsBoxedCall =>
        \A i \in 1..Len(ret.bboxes) :
            DecodedWithAdjusted(obj, ret.image, i,
                                bbox_xyxy2cs(ret.bboxes[i], Rat(PaddingNum, PaddingDen)))

\* A call with two boxes of different adjusted scales, the first of them not
\* its padded scale.
C9_Witness ==
    /\ IsCall
    /\ Len(ret.bboxes) = 2
    /\ ret.scales[1] # ret.scales[2]
    /\ ret.scales[1] # bbox_xyxy2cs(ret.bboxes[1], Rat(PaddingNum, PaddingDen)).scale

IsScale == ret.op = "scale"

\* target_width / target_height, as the float the code computes.
TargetRatio == FDiv(RInt(obj.model_input_size[1]), RInt(obj.model_input_size[2]))

\* 2^(1 - MantissaBits): the spacing of the floats just above 1.
Epsilon == Rat(2, MantissaHigh)

\* C10 (as the claim states it): the adjusted scale has width / height equal
\* to target_width / target_height, neither component is smaller than the
\* padded one, and box (100, 100, 200, 300) at 192 x 256 gives 0.75.
C10_ExactTargetRatio ==
    IsScale =>
        /\ FDiv(ret.scale[1], ret.scale[2]) = TargetRatio
        /\ RGe(ret.scale[1], ret.padded[1])
        /\ RGe(ret.scale[2], ret.padded[2])
        /\ (ret.bbox = BoxTall /\ obj.model_input_size = <<192, 256>>)
              => RDiv(ret.scale[1], ret.scale[2]) = Rat(3, 4)

\* C10 (amended): width / height of the adjusted scale is within two
\* roundings of target_width / target_height; one component is the padded one
\* and the other is not smaller than the padded one by more than a rounding;
\* box (100, 100, 200, 300) at 192 x 256 gives (187.5, 250), ratio 0.75.
C10_TargetRatioUpToRounding ==
    IsScale =>
        /\ RGe(RMul(Rat(obj.model_input_size[1], obj.model_input_size[2]), Epsilon),
               RAbs(RSub(RDiv(ret.scale[1], ret.scale[2]),
                         Rat(obj.model_input_size[1], obj.model_input_size[2]))))
        /\ ret.scale[1] = ret.padded[1] \/ ret.scale[2] = ret.padded[2]
        /\ RGe(ret.scale[1], RMul(ret.padded[1], RSub(RInt(1), Epsilon)))
        /\ RGe(ret.scale[2], RMul(ret.padded[2], RSub(RInt(1), Epsilon)))
        /\ (ret.bbox = BoxTall /\ obj.model_input_size = <<192, 256>>)
              => ret.scale = <<Rat(375, 2), Rat(250, 1)>>

\* A box whose adjusted scale has not exactly the target ratio.
C10_Witness ==
    /\ IsScale
    /\ FDiv(ret.scale[1], ret.scale[2]) # TargetRatio
    /\ ret.scale # ret.padded

----------------------------------------------------------------------------
\* Properties of the decode.

IsDecode == ret.op = "decode"

\* |x - c| is at most bound.
Within(x, c, bound) == RGe(bound, RAbs(RSub(x, c)))

\* The two roundings of (k + center) - scale / 2, as a bound on the result.
DecodeBound(c, sc) == RMul(Epsilon, RAdd(RAbs(c), RMul(RAbs(sc), Rat(1, 2))))

\* C11 (as the claim states it): a model output with every argmax at the
\* crop center decodes, for every box, to the box center for all 17
\* keypoints; box (100, 100, 200, 300) at 192 x 256 gives (150, 200).
C11_CenterDecodesToCenter ==
    IsDecode =>
        /\ ret.shape = <<1, NumKeypointsDefault, 2>>
        /\ \A k \in 1..Len(ret.keypoints) : ret.keypoints[k] = ret.center
        /\ (ret.bbox = BoxTall /\ obj.model_input_size = <<192, 256>>)
              => \A k \in 1..Len(ret.keypoints) :
                    ret.keypoints[k] = <<RInt(150), RInt(200)>>

\* C11 (amended): such an output decodes every keypoint to the box center up
\* to the two roundings of (k + center) - scale / 2; box (100, 100, 200, 300)
\* at 192 x 256 gives exactly (150, 200) for every keypoint.
C11_CenterDecodesNearCenter ==
    IsDecode =>
        /\ ret.shape = <<1, ModelKeypoints(obj.onnx_model), 2>>
        /\ \A k \in 1..Len(ret.keypoints) :
             /\ Within(ret.keypoints[k][1], ret.center[1],
                       DecodeBound(ret.center[1], ret.scale[1]))
             /\ Within(ret.keypoints[k][2], ret.center[2],
                       DecodeBound(ret.center[2], ret.scale[2]))
        /\ (ret.bbox = BoxTall /\ obj.model_input_size = <<192, 256>>)
              => \A k \in 1..Len(ret.keypoints) :
                    ret.keypoints[k] = <<RInt(150), RInt(200)>>

\* A box whose keypoints decode beside its center.
C11_Witness ==
    /\ IsDecode
    /\ Len(ret.keypoints) = NumKeypointsDefault
    /\ ret.keypoints[1] # ret.center

----------------------------------------------------------------------------
\* Properties of the inputs a call rejects.

Degenerate(bbox) == bbox[1] >= bbox[3] \/ bbox[2] >= bbox[4]
HasDegenerate(bboxes) == \E i \in 1..Len(bboxes) : Degenerate(bboxes[i])

\* C12 (as the claim states it): a call whose list holds a box with x1 >= x2
\* or y1 >= y2 raises before any stage: no crop, no backend run, no keypoints.
C12_DegenerateBoxFailsFast ==
    (ret.op \in {"call", "call_raised"} /\ HasDegenerate(ret.bboxes))
        => /\ ret.op = "call_raised"
           /\ ret.runs = 0
           /\ ret.stages = <<>>

----------------------------------------------------------------------------
\* Properties of RTMPose.preprocess.

IsPreprocess == ret.op = "preprocess"

\* C13 (as the claim states it): the crops of the batch are normalized if
\* mean/std were given to the constructor, and are the warped crops as they
\* are if the constructor was given None (obj.mean is then ArrayOf("None")).
C13_NormalizedIffConfigured ==
    IsPreprocess =>
        \A i \in 1..Len(ret.crops) :
            ret.crops[i].normalized = (obj.mean # ArrayOf("None"))

\* C14 (as the claim states it): for N boxes, N = 0 included, preprocess
\* returns a batch of shape (N, target_h, target_w, channels).
C14_BatchShape ==
    IsPreprocess =>
        ret.batch_img_np = <<Len(ret.bboxes), obj.model_input_size[2],
                             obj.model_input_size[1], Channels>>

\* C14, for the calls with a box: the stacked batch has that shape.
BatchShapeWhenBoxed ==
    (IsPreprocess /\ ret.bboxes # <<>>) =>
        ret.batch_img_np = <<Len(ret.bboxes), obj.model_input_size[2],
                             obj.model_input_size[1], Channels>>

\* C13, for the instances built with mean/std: every crop is normalized.
NormalizedWhenConfigured ==
    (IsPreprocess /\ obj.mean = ArrayOf("tuple")) =>
        \A i \in 1..Len(ret.crops) : ret.crops[i].normalized

----------------------------------------------------------------------------
\* Properties of the timing and of a failing backend.

StageSum ==
    ret.timing_info.preprocess + ret.timing_info.prep
        + ret.timing_info.model + ret.timing_info.postprocess

IsCallRaised == ret.op = "call_raised"

\* C16: when the backend raises during a call, the backend was executed once,
\* the error is what the call raises, postprocess has not run and the call
\* returns neither keypoints nor a timing record.
C16_BackendFailurePropagates ==
    IsCallRaised =>
        /\ ret.runs = 1
        /\ ret.raised = "BackendError"
        /\ ret.stages = <<"preprocess", "inference">>
        /\ ret.batch_input[1] = Len(ret.bboxes)
        /\ DOMAIN ret \cap {"keypoints", "scores", "timing_info"} = {}

\* A call with two boxes whose backend run raised.
C16_Witness == IsCallRaised /\ Len(ret.bboxes) = 2 /\ ret.runs = 1

\* The snapshot is absent or one record with total = prep + model, and after
\* a run that returned it is that run's record.
SnapshotIsLastRun ==
    /\ Len(timing) <= 1
    /\ timing # <<>> =>
         /\ timing[1].prep \in Durations /\ timing[1].model \in Durations
         /\ timing[1].total = timing[1].prep + timing[1].model
    /\ (ret.op = "inference" /\ ret.raised = "") =>
         timing = <<[prep |-> ret.prep_time, model |-> ret.model_time,
                     total |-> ret.prep_time + ret.model_time]>>
    /\ IsBoxedCall =>
         timing = <<[prep |-> ret.timing_info.prep, model |-> ret.timing_info.model,
                     total |-> ret.timing_info.prep + ret.timing_info.model]>>

\* A step that ends in a raised run leaves the snapshot as it was.
RaisedRunKeepsSnapshot ==
    ((ret'.op = "inference" /\ ret'.raised # "") \/ ret'.op = "call_raised")
        => timing' = timing

\* C17: the snapshot on the instance is that of the most recent run that
\* returned, one record with total = prep + model, overwritten by each such
\* run and left unchanged by a run that raises.
C17_SnapshotOfLastSuccessfulRun ==
    /\ []SnapshotIsLastRun
    /\ [][RaisedRunKeepsSnapshot]_vars

\* A run that raised after a run that returned: the snapshot is still set.
C17_Witness ==
    /\ ret.op = "inference"
    /\ ret.raised = "BackendError"
    /\ timing # <<>>
    /\ timing[1].prep # timing[1].model

----------------------------------------------------------------------------
\* Properties of the stages of a call.

\* The crop the loop of preprocess cuts for box i of the call in ret.
CropOfBox(i) == LoopBody(obj, ret.image, ret.bboxes[i]).crop

\* C18: a call with N >= 1 boxes runs preprocess, one backend run, postprocess
\* and, iff the instance was built with to_openpose, the remap, in that order
\* and once each; the backend is given a rank-4 batch whose first dimension
\* is N, made of the crops of this call's frame at this call's boxes.
C18_StagesOncePerCall ==
    IsBoxedCall =>
        /\ ret.stages = <<"preprocess", "inference", "postprocess">>
                        \o (IF obj.to_openpose THEN <<"convert_coco_to_openpose">>
                                               ELSE <<>>)
        /\ ret.runs = 1
        /\ Len(ret.batch_input) = 4
        /\ ret.batch_input[1] = Len(ret.bboxes)
        /\ Len(ret.crops) = Len(ret.bboxes)
        /\ \A i \in 1..Len(ret.bboxes) :
             /\ ret.crops[i].frame = ret.image
             /\ ret.crops[i] = CropOfBox(i)

\* A call on the second frame with two different boxes, by an instance built
\* with the remap.
C18_Witness ==
    /\ IsBoxedCall
    /\ obj.to_openpose
    /\ ret.image = "next_frame"
    /\ ret.bboxes = <<BoxWide, BoxTall>>
    /\ Len(ret.stages) = 4

\* What a call with the inputs of the call in ret returns from the instance,
\* whatever it did before.
ResultOfCall ==
    CallWith(obj, ret.bboxes, TickOf({}),
             PipelineOf(obj, ret.image, ret.bboxes))

CallIsFunctionOfInputs ==
    IsCall =>
        /\ ret.keypoints = ResultOfCall.keypoints
        /\ ret.scores = ResultOfCall.scores

----------------------------------------------------------------------------
\* Properties of the video thread.

StopRequested == thread.main = "wait"

StopReturned == thread.main = "stopped" /\ thread.pc = "finished"

\* C20: whenever stop() is called on a started thread, wherever run() is,
\* the thread eventually leaves its loop and ends, and stop()'s wait()
\* returns.
C20_StopAlwaysTerminates == StopRequested ~> StopReturned

\* A stop() that finds run() past `self.running = True` does end the thread.
StopInLoopTerminates ==
    (StopRequested /\ thread.stop_at \notin {"run", "initialize_cameras",
                                              "running_true"})
        ~> StopReturned

\* Once stop() has cleared the flag, run() does not set it again.
StopRequestKept == StopRequested => ~thread.running

----------------------------------------------------------------------------
\* Properties of the frame_ready emission.

IsFrameReady == ret.op = "frame_ready"

\* What the pose estimator gives for the box of track_data[i] alone.
PoseOfTrack(i) == PipelineOf(obj, ret.frame, <<ret.track_data[i].bbox>>)

\* C21: in every frame_ready emission the three lists have one length (all
\* empty when no track is activated), entry i of keypoints_list and of
\* scores_list is what the box of track_data[i] gives, and track_data holds
\* the activated tracks, each once, in the tracker's order.
C21_EmissionIndexAligned ==
    IsFrameReady =>
        /\ Len(ret.keypoints_list) = Len(ret.track_data)
        /\ Len(ret.scores_list) = Len(ret.track_data)
        /\ \A i \in 1..Len(ret.track_data) :
             /\ ret.keypoints_list[i] = PoseOfTrack(i).keypoints.data[1]
             /\ ret.scores_list[i] = PoseOfTrack(i).scores.data[1]
        /\ Len(ret.track_data)
             = Cardinality({j \in 1..Len(ret.tracks) : ret.tracks[j].is_activated})
        /\ \A i \in 1..Len(ret.track_data) :
             \E j \in 1..Len(ret.tracks) :
                /\ ret.tracks[j].is_activated
                /\ ret.tracks[j].track_id = ret.track_data[i].id
                /\ TrackBbox(ret.tracks[j]) = ret.track_data[i].bbox

\* An emission for three tracks, the middle one not activated, the two
\* others with different boxes.
C21_Witness ==
    /\ IsFrameReady
    /\ Len(ret.tracks) = 3
    /\ ~ret.tracks[2].is_activated
    /\ Len(ret.track_data) = 2
    /\ ret.track_data[1].bbox # ret.track_data[2].bbox
    /\ Len(ret.keypoints_list) = 2

----------------------------------------------------------------------------
\* Properties of the squat counter.

\* C22: in_squat_position is true only once the hip has been seen below the
\* knee in at least SQUAT_VALIDATION_FRAMES video frames in a row.
C22_ValidationNeedsThreeFrames ==
    (squat.frame_id >= 0 /\ squat.in_squat_position)
        => squat.validated_after >= SQUAT_VALIDATION_FRAMES

\* The validations in which the frames in a row were enough end the same way
\* as any other: a rep is counted for each.
ValidationAfterThreeFrames ==
    /\ squat.frame_id >= 0
    /\ squat.in_squat_position
    /\ squat.validated_after >= SQUAT_VALIDATION_FRAMES

\* in_squat_position goes from true to false in this step.
StandsUp == squat.in_squat_position /\ ~squat'.in_squat_position

\* The person of this step is confident with the hip not below the knee.
SeesStanding ==
    /\ squat.persons # <<>>
    /\ Confident(Head(squat.persons))
    /\ ~hip_below_knee(Head(squat.persons))

RepCountedOnStandUp ==
    /\ squat'.squat_rep_count \in {squat.squat_rep_count, squat.squat_rep_count + 1}
    /\ (squat'.squat_rep_count = squat.squat_rep_count + 1) <=> StandsUp
    /\ StandsUp <=> (squat.in_squat_position /\ SeesStanding)
    /\ StandsUp => squat'.consecutive_squat_frames = 0

RepsWithinValidations ==
    squat.frame_id >= 0 =>
        /\ squat.squat_rep_count <= squat.validations
        /\ squat.validations <= squat.squat_rep_count + 1
        /\ squat.in_squat_position <=> (squat.validations = squat.squat_rep_count + 1)

\* C23: squat_rep_count never decreases; it grows by exactly 1 in the steps
\* that take in_squat_position from true to false, which are the confident
\* hip-above-knee observations made in a validated squat and which reset
\* consecutive_squat_frames; the reps counted never exceed the validations.
C23_RepCountedOncePerSquat ==
    /\ []RepsWithinValidations
    /\ [][RepCountedOnStandUp]_vars

\* Two reps counted, the second just now.
C23_Witness ==
    /\ squat.frame_id >= 0
    /\ squat.squat_rep_count = 2
    /\ squat.validations = 2
    /\ ~squat.in_squat_position
    /\ squat.consecutive_squat_frames = 0
    /\ squat.persons # <<>>

----------------------------------------------------------------------------
\* Properties of segment_strides.

IsStrides == ret.op = "strides"

SeriesNames == {"hip_angles", "knee_angles", "ankle_x", "ankle_y"}

\* Samples a to b of the series, both included.
Samples(name, a, b) == Array([k \in 1..(b - a + 1) |-> <<name, a + k - 1>>])

\* Stride i is numbered i, runs from footstrike i to footstrike i + 1 and has
\* every sample between them, both included, of each of the series in names.
StrideCovers(i, names) ==
    /\ ret.strides[i].stride_number = i
    /\ ret.strides[i].start_frame = ret.footstrike_indices[i]
    /\ ret.strides[i].end_frame = ret.footstrike_indices[i + 1]
    /\ \A name \in names :
         ret.strides[i][name] = Samples(name, ret.footstrike_indices[i],
                                        ret.footstrike_indices[i + 1])

StridesFor(names) ==
    /\ Len(ret.footstrike_indices) < 2 => ret.strides = <<>>
    /\ Len(ret.footstrike_indices) >= 2 =>
         /\ Len(ret.strides) = Len(ret.footstrike_indices) - 1
         /\ \A i \in 1..Len(ret.strides) :
              /\ StrideCovers(i, names)
              /\ "frames" \in DOMAIN ret.strides[i] =>
                   /\ ret.frames # <<>>
                   /\ Len(ret.frames[1]) > ret.strides[i].end_frame

\* C24: fewer than 2 footstrikes give no stride; otherwise there are
\* len(footstrike_indices) - 1 strides in order, stride i holding the samples
\* from footstrike i to footstrike i + 1, both included, of every series, and
\* frames only if the frame list is longer than its end index.
C24_StridesCoverEverySeries == IsStrides => StridesFor(SeriesNames)

\* The same for the two ankle series, in which the footstrikes were found.
StridesCoverAnkleSeries == IsStrides => StridesFor({"ankle_x", "ankle_y"})

\* The same for every series when the angle series are as long as the ankle
\* series.
StridesCoverAlignedSeries ==
    (/\ IsStrides
     /\ Len(ret.data.hip_angles) = Len(ret.data.ankle_x)
     /\ Len(ret.data.knee_angles) = Len(ret.data.ankle_x))
        => StridesFor(SeriesNames)

----------------------------------------------------------------------------
\* Properties of the treadmill window.

WindowOpen == window.recording_name # "none"

\* C25: the recorded series have one length and entry i of each is from the
\* same frame, so that each CSV row holds the values of one frame.
C25_SeriesFrameAligned ==
    WindowOpen =>
        /\ Len(window.recording_data.hip_angles)
             = Len(window.recording_data.ankle_coords)
        /\ Len(window.recording_data.knee_angles)
             = Len(window.recording_data.ankle_coords)
        /\ \A row \in {CsvRows(window.recording_data)[i] :
                          i \in 1..Len(window.recording_data.hip_angles)} :
             /\ row.knee_angle = row.hip_angle
             /\ row.ankle = row.hip_angle

\* C26: what an analysis thread has written carries the name and the samples
\* of the recording whose stop started it.
C26_AnalysisUsesStoppedRecording ==
    WindowOpen =>
        \A i \in 1..Len(window.analyses) :
            \E a \in {window.analyses[i]} :
                /\ a.pc \notin {"output_dir"} => a.output_dir = a.stopped.name
                /\ a.pc \notin {"output_dir", "save_csv"} =>
                     /\ a.csv_name = a.stopped.name
                     /\ a.csv_rows = CsvRows(a.stopped.data)
                /\ a.pc \in {"analyze_recording", "done"} =>
                     /\ a.video_name = a.stopped.name
                     /\ a.video_frames = a.stopped.data.frames

\* An analysis thread that met no new recording wrote the stopped one.
AnalysisOfOnlyRecording ==
    (WindowOpen /\ Len(window.signals) <= 2) => C26_AnalysisUsesStoppedRecording

\* The signals so far alternate, recording_started first.
Alternate(signals) ==
    \A i \in 1..Len(signals) :
        signals[i] = IF i % 2 = 1 THEN "recording_started" ELSE "recording_stopped"

\* C27: the two signals alternate starting with recording_started, the
\* listener's is_recording equals the widget's, and the name input is
\* enabled exactly when the widget is not recording.
C27_SignalsAlternate ==
    WindowOpen =>
        /\ Alternate(window.signals)
        /\ window.is_recording = window.widget_is_recording
        /\ window.name_input_enabled = ~window.widget_is_recording

\* The same holds as long as reset has not been called.
SignalsAlternateBeforeReset ==
    (WindowOpen /\ ~window.was_reset) => C27_SignalsAlternate

\* The name input follows the widget's flag, reset or not.
NameInputEnabledIffIdle ==
    WindowOpen => (window.name_input_enabled = ~window.widget_is_recording)

----------------------------------------------------------------------------
\* Properties of the timing record under sequential and interleaved calls.

OwnRunReported(call) ==
    /\ call.timing_info.prep = call.run.prep
    /\ call.timing_info.model = call.run.model

\* C28: a returned call with boxes that no other call on the instance
\* overlapped reports the prep and model durations of its own backend run,
\* whatever an earlier call left on the instance; a record that carries
\* other values is one of a call that another call overlapped.
C28_TimingIsOfOwnRun ==
    ret.op = "calls" =>
        \A c \in CallThreads :
            (ret.calls[c].pc = "returned" /\ ~ret.calls[c].shared)
                => OwnRunReported(ret.calls[c])

\* A sequential call that found an earlier call's different durations on the
\* instance and reports its own.
C28_Witness ==
    /\ ret.op = "calls"
    /\ \E c \in CallThreads :
         /\ ret.calls[c].pc = "returned"
         /\ ~ret.calls[c].shared
         /\ ret.calls[c].before # <<>>
         /\ ret.calls[c].before[1].prep # ret.calls[c].run.prep
         /\ ret.calls[c].before[1].model # ret.calls[c].run.model
         /\ OwnRunReported(ret.calls[c])

\* Reachable: an overlapped call reports the other call's durations.
InterleavedCallReportsOther ==
    /\ ret.op = "calls"
    /\ \E c \in CallThreads :
         /\ ret.calls[c].pc = "returned"
         /\ ret.calls[c].shared
         /\ ~OwnRunReported(ret.calls[c])

----------------------------------------------------------------------------
\* Properties of the cameras and the shared configuration.

CamerasInitialized ==
    /\ thread.pc \in {"while", "finished"}
    /\ thread.error_occurred # "Failed to initialize cameras"

Captured == CamerasInitialized /\ thread.outcome # "none"

ConfigAsOpened == thread.read = thread.opened_with

\* C29: a thread whose initialize_cameras succeeded opened its cameras in a
\* recognised mode, and each capture_frame made in the mode it opened with
\* returns a frame or the pair (None, None).
C29_CaptureReturnsPair ==
    /\ CamerasInitialized => thread.opened_with.camera_mode \in CameraModes
    /\ (Captured /\ ConfigAsOpened) => ~Raised(thread.outcome)

\* In the three modes of the dialog, with the configuration as opened,
\* capture_frame returns a pair.
CaptureReturnsPairInDialogModes ==
    (Captured /\ ConfigAsOpened /\ thread.opened_with.camera_mode \in CameraModes)
        => ~Raised(thread.outcome)

\* C30: what capture_frame reads of the configuration is what the thread
\* opened its cameras with, and the call neither indexes a camera that is
\* not open nor reads from a GoPro that is not open.
C30_RunningThreadKeepsConfig ==
    Captured =>
        /\ ConfigAsOpened
        /\ thread.outcome \notin {"KeyError", "AttributeError"}

\* A thread started after the last change opens and reads that configuration.
ThreadStartedAfterChangeKeepsConfig ==
    (Captured /\ ~thread.changed) => C30_RunningThreadKeepsConfig

\* Reachable: a thread that opened its cameras in a mode of the dialog is made
\* to index a camera it did not open by a change applied while it runs.
RunningThreadIndexesUnopenedCamera ==
    /\ Captured
    /\ thread.opened_with.camera_mode \in CameraModes
    /\ thread.outcome \in {"KeyError", "AttributeError"}
    /\ thread.running

====
